---- MODULE Spec2Model ----
(***************************************************************************)
(* A model of the bulk webhook delivery and validation pipeline of         *)
(* BonzoBuddy:                                                             *)
(*   - WebhookValidator.send_bulk_webhooks_async (bounded-concurrency      *)
(*     batch delivery), scripts/webhook_validator.py                       *)
(*   - WebhookValidator.send_webhook_with_retry (sequential retry)         *)
(*   - BonzoAPIClient.wait_for_prospects (polling with a deadline),        *)
(*     scripts/bonzo_api_client.py                                         *)
(*   - TestDataFactory._calculate_user_distribution,                       *)
(*     scripts/test_data_factory.py                                        *)
(* Each operation has its own specification (SpecBulk, SpecRetry,          *)
(* SpecPoll, SpecDist); the variables of the other operations stay at      *)
(* their idle values.                                                      *)
(***************************************************************************)
EXTENDS Integers, Sequences, FiniteSets, TLC

VARIABLES
  \* ---- send_bulk_webhooks_async
  test_records,         \* the submitted list of TestRecord
  concurrent_requests,  \* self.concurrent_requests (C)
  semaphore,            \* asyncio.Semaphore: its free slots
  task,                 \* per record: "pending" | "inflight" | "finished"
  responses,            \* per record: what gather collected for its task
  posts,                \* per record: number of POSTs issued
  post_outcome,         \* per record: how its POST ended (NoOutcome if it has not)
  webhook_responses,    \* the returned list (<<>> until the return)
  bulk_pc,              \* "idle" | "gather" | "returned"
  \* ---- send_webhook_with_retry
  retry_attempts,       \* self.retry_attempts
  attempt,              \* loop variable of range(self.retry_attempts)
  last_response,        \* local last_response
  retry_result,         \* the value returned
  retry_log,            \* the POSTs and sleeps performed, in order
  retry_pc,             \* "idle" | "loop" | "returned"
  \* ---- wait_for_prospects
  timeout,              \* parameter timeout
  check_interval,       \* parameter check_interval
  expected_count,       \* parameter expected_count
  start_time,           \* local start_time
  prospects,            \* local prospects (Unbound before the first fetch)
  poll_result,          \* the list returned
  poll_error,           \* the error raised
  poll_log,             \* the fetches and sleeps performed, in order
  poll_pc,              \* "idle" | "loop" | "returned" | "raised"
  \* ---- _calculate_user_distribution
  total_records,        \* config.test_records
  num_users,            \* len(config.test_users)
  distribution_method,  \* config.distribution
  user_distributions,   \* the mapping user index -> count being built
  dist_pc,              \* "idle" | "loop" | "returned"
  \* ---- generate_test_records and validate_test_records
  payload_template,     \* self.payload_template
  records,              \* local records: the TestRecord list being built
  record_counter,       \* local record_counter
  user_index,           \* the 0-based user the outer loop is at
  user_i,               \* loop variable i of range(count)
  submitted_records,    \* the list handed to validate_test_records
  validation_results,   \* the dictionary validate_test_records returns
  gen_pc,               \* "idle" | "distribute" | "generate" | "returned"
                        \*   | "validated" | "raised"
  \* ---- IntegrationSchema.from_json_file and generate_payload
  schema_data,          \* the template definition read from the JSON file
  fields,               \* IntegrationSchema.fields: name -> SchemaNode
  prospect_data,        \* the substitution map handed to generate_payload
  payload,              \* the payload generate_payload returns
  schema_pc,            \* "idle" | "loaded" | "converted" | "resolved"
  \* ---- BonzoAPIClient._make_request
  api_user_id,          \* parameter user_id (<<>> for None, <<n>> for n)
  api_remote,           \* what the connection and the remote do in this call
  conn,                 \* local conn: "unbound" | "open" | "closed"
  headers,              \* local headers: the header names sent
  api_pending,          \* the return value or exception on its way out
  api_result,           \* how the call ended for its caller
  api_pc,               \* "idle" | "try" | "request" | "check" | "except"
                        \*   | "finally" | "done"
  \* ---- WebhookValidator.__init__ and validate_webhook_endpoint
  config_webhook_url,   \* config.webhook_url
  override_webhook_url, \* argument webhook_url of __init__ (None if not given)
  webhook_url,          \* self.webhook_url
  ping_calls,           \* per call: the URL posted to and how the POST ended
  ping_results,         \* per call: the results dictionary returned
  ping_pc,              \* "idle" | "new" | "ready"
  \* ---- WebhookValidator.generate_delivery_report
  report_responses,     \* parameter responses
  report,               \* the report dictionary returned
  report_pc,            \* "idle" | "ready" | "done"
  \* ---- run_integration_health_check
  health_config,        \* the configuration: its users and what it lacks
  check_test_data,      \* parameter check_test_data
  checks,               \* health_report['checks']
  overall_status,       \* health_report['overall_status']
  health_error,         \* health_report['error'] (None if the key is absent)
  health_pc,            \* "idle" | "webhook" | "api" | "recent" | "overall"
                        \*   | "except" | "returned"
  \* ---- generate_test_data (scripts/bulk_test_generator.py)
  dry_run,              \* parameter dry_run
  run_log,              \* the gates passed through, in order
  run_pc,               \* "idle" | "generate" | "export" | "endpoint"
                        \*   | "send" | "sending" | "done" | "stopped"
                        \*   | "raised"
  \* ---- BonzoAPIClient.get_user_prospects
  fetch_response,       \* what _make_request returned or raised
  fetch_index,          \* the position the for loop is at
  fetch_prospects,      \* local prospects
  fetch_error,          \* the exception that left the call (None if none)
  fetch_pc,             \* "idle" | "request" | "loop" | "returned" | "raised"
  \* ---- TestDataFactory._replace_template_variables, character by character
  subst_template,       \* a string value of the payload template
  subst_values,         \* placeholder key -> the string that replaces it
  subst_result,         \* the value in the returned payload, or the error
  subst_pc,             \* "idle" | "ready" | "done"
  \* ---- AppStateManager and the files of DataService
  org_webhooks_file,    \* org_webhooks.json: organization id -> webhooks
  generated_prospects_file, \* generated_prospects.json: id -> prospects
  selected_organization,    \* state.selected_organization (<<>> if None)
  selected_webhook_index,   \* state.selected_webhook_index (<<>> if None)
  selected_prospect,    \* state.selected_prospect (<<>> if None)
  pending_prospect,     \* state.pending_prospect (<<>> if None)
  generated_payload,    \* state.generated_payload (<<>> if None)
  user_selected_webhook,    \* the webhook the user chose by select_webhook
  webhooks_added,       \* how many webhooks add_webhook has added
  sends,                \* how many POSTs send_payload has made
  last_status,          \* the status of the last of them (<<>> if none)
  app_pc,               \* "idle" | "running" | "raised"
  \* ---- the clock read by time.time() and datetime.now()
  now

bulk_vars  == <<test_records, concurrent_requests, semaphore, task, responses,
                posts, post_outcome, webhook_responses, bulk_pc>>
retry_vars == <<retry_attempts, attempt, last_response, retry_result,
                retry_log, retry_pc>>
poll_vars  == <<timeout, check_interval, expected_count, start_time,
                prospects, poll_result, poll_error, poll_log, poll_pc>>
dist_vars  == <<total_records, num_users, distribution_method,
                user_distributions, dist_pc>>
gen_vars   == <<payload_template, records, record_counter, user_index,
                user_i, submitted_records, validation_results, gen_pc>>
schema_vars == <<schema_data, fields, prospect_data, payload, schema_pc>>
api_vars   == <<api_user_id, api_remote, conn, headers, api_pending,
                api_result, api_pc>>
ping_vars  == <<config_webhook_url, override_webhook_url, webhook_url,
                ping_calls, ping_results, ping_pc>>
report_vars == <<report_responses, report, report_pc>>
health_vars == <<health_config, check_test_data, checks, overall_status,
                 health_error, health_pc>>
run_vars   == <<dry_run, run_log, run_pc>>
fetch_vars == <<fetch_response, fetch_index, fetch_prospects, fetch_error,
                fetch_pc>>
subst_vars == <<subst_template, subst_values, subst_result, subst_pc>>
app_vars   == <<org_webhooks_file, generated_prospects_file,
                selected_organization, selected_webhook_index,
                selected_prospect, pending_prospect, generated_payload,
                user_selected_webhook, webhooks_added, sends, last_status,
                app_pc>>
more_vars  == <<health_vars, run_vars, fetch_vars, subst_vars, app_vars>>
older_vars == <<bulk_vars, retry_vars, poll_vars, dist_vars, gen_vars,
                schema_vars, api_vars, ping_vars, report_vars>>
ext_vars   == <<gen_vars, schema_vars, api_vars, ping_vars, report_vars,
                more_vars>>
vars == <<bulk_vars, retry_vars, poll_vars, dist_vars, ext_vars, now>>

(***************************************************************************)
(* Bounds of the model.                                                    *)
(***************************************************************************)
MaxRecords == 3      \* records submitted to one batch
MaxFairRecords == 2  \* records of a batch whose termination is checked
MaxAdded == 1        \* webhooks added by add_webhook
MaxWebhooks == 3     \* largest index offered to select_webhook, delete_webhook
MaxSends == 3        \* POSTs made by send_payload
MaxConcurrent == 3   \* largest concurrent_requests
MaxRetry == 3        \* largest retry_attempts
MaxTimeout == 3      \* largest polling timeout, in clock ticks
MaxInterval == 2     \* largest check_interval, in clock ticks
MaxFetchTime == 1    \* longest duration of one fetch, in clock ticks
MaxFound == 3        \* most matching prospects the remote reports
MaxFetches == 4      \* fetches after which the model stops following a poll
MaxTotal == 10       \* largest config.test_records
MaxUsers == 3        \* most configured test users
MaxPings == 2        \* most endpoint checks made with one validator
MaxPingTime == 1     \* longest duration of the ping POST, in clock ticks
MaxResponses == 3    \* longest response list drawn freely for a report
LargeTotal == 1001   \* a record count beyond the three padded digits

(***************************************************************************)
(* Values shared by the operations.                                        *)
(***************************************************************************)
None == "None"

\* The HTTP status codes the endpoint answers with in the model.
HttpStatuses == {200, 299, 300, 503}

\* 200 <= status_code < 300
IsSuccess(status_code) == 200 <= status_code /\ status_code < 300

\* A variant of Pad3 that keeps only the last three digits.
Pad3_LastThreeDigits(n) ==
  IF n % 1000 < 10 THEN "00" \o ToString(n % 1000)
  ELSE IF n % 1000 < 100 THEN "0" \o ToString(n % 1000)
  ELSE ToString(n % 1000)

\* f"{n:03d}"
Pad3(n) ==
  IF n < 10 THEN "00" \o ToString(n)
  ELSE IF n < 100 THEN "0" \o ToString(n)
  ELSE ToString(n)

\* f"{test_run_id}_{record_counter:03d}"
RecordId(test_run_id, counter) ==
  test_run_id \o "_" \o Pad3(counter)

TestRunId == "run"

\* TestRecord: the fields the delivery engine reads
TestRecord(k) ==
  [record_id |-> RecordId(TestRunId, k), sequence_number |-> k]

\* WebhookResponse(record_id, status_code, response_text, response_time, error)
\* with timestamp set by __post_init__
WebhookResponse(record_id, status_code, error, timestamp) ==
  [kind |-> "WebhookResponse", record_id |-> record_id,
   status_code |-> status_code, error |-> error, timestamp |-> timestamp]

IsWebhookResponse(r) == r.kind = "WebhookResponse"

\* What one POST can end with: an HTTP response, a timeout, another exception.
PostOutcomes ==
  [kind : {"status"}, status : HttpStatuses]
    \cup {[kind |-> "Timeout", status |-> 0],
          [kind |-> "Exception", status |-> 0]}

TimeoutMsg == "Timeout after 30s"
RequestFailedMsg == "Request failed: Cannot connect to host"

(***************************************************************************)
(* Idle values: the state of an operation that is not running.             *)
(***************************************************************************)
BulkIdle ==
  /\ test_records = <<>> /\ concurrent_requests = 0 /\ semaphore = 0
  /\ task = <<>> /\ responses = <<>> /\ posts = <<>> /\ post_outcome = <<>>
  /\ webhook_responses = <<>> /\ bulk_pc = "idle"

RetryIdle ==
  /\ retry_attempts = 0 /\ attempt = 0 /\ last_response = [kind |-> None]
  /\ retry_result = [kind |-> None] /\ retry_log = <<>> /\ retry_pc = "idle"

PollIdle ==
  /\ timeout = 0 /\ check_interval = 0 /\ expected_count = 0
  /\ start_time = 0 /\ prospects = [bound |-> FALSE, list |-> <<>>]
  /\ poll_result = <<>>
  /\ poll_error = [kind |-> None, found |-> 0]
  /\ poll_log = <<>> /\ poll_pc = "idle"

DistIdle ==
  /\ total_records = 0 /\ num_users = 0 /\ distribution_method = "even"
  /\ user_distributions = <<>> /\ dist_pc = "idle"

NoValidation ==
  [total_records |-> 0, expected_records |-> 0, records_match |-> FALSE,
   user_distribution |-> <<>>, unique_emails |-> {}, unique_record_ids |-> {},
   emails_unique |-> FALSE, record_ids_unique |-> FALSE,
   validation_errors |-> <<>>]

GenIdle ==
  /\ payload_template = <<>> /\ records = <<>> /\ record_counter = 0
  /\ user_index = 0 /\ user_i = 0 /\ submitted_records = <<>>
  /\ validation_results = NoValidation
  /\ gen_pc = "idle"

SchemaIdle ==
  /\ schema_data = <<>> /\ fields = <<>> /\ prospect_data = <<>>
  /\ payload = <<>> /\ schema_pc = "idle"

Nothing == [kind |-> "none"]

ApiIdle ==
  /\ api_user_id = <<>> /\ api_remote = Nothing /\ conn = "unbound"
  /\ headers = {} /\ api_pending = Nothing /\ api_result = Nothing
  /\ api_pc = "idle"

PingIdle ==
  /\ config_webhook_url = None /\ override_webhook_url = None
  /\ webhook_url = None /\ ping_calls = <<>> /\ ping_results = <<>>
  /\ ping_pc = "idle"

ReportIdle ==
  report_responses = <<>> /\ report = Nothing /\ report_pc = "idle"

HealthIdle ==
  /\ health_config = Nothing /\ check_test_data = FALSE /\ checks = <<>>
  /\ overall_status = None /\ health_error = None /\ health_pc = "idle"

RunIdle == dry_run = FALSE /\ run_log = <<>> /\ run_pc = "idle"

FetchIdle ==
  /\ fetch_response = Nothing /\ fetch_index = 0 /\ fetch_prospects = <<>>
  /\ fetch_error = None /\ fetch_pc = "idle"

SubstIdle ==
  /\ subst_template = <<>> /\ subst_values = <<>>
  /\ subst_result = Nothing /\ subst_pc = "idle"

AppIdle ==
  /\ org_webhooks_file = <<>> /\ generated_prospects_file = <<>>
  /\ selected_organization = <<>> /\ selected_webhook_index = <<>>
  /\ selected_prospect = <<>> /\ pending_prospect = <<>>
  /\ generated_payload = <<>> /\ user_selected_webhook = <<>>
  /\ webhooks_added = 0 /\ sends = 0 /\ last_status = <<>>
  /\ app_pc = "idle"

MoreIdle == HealthIdle /\ RunIdle /\ FetchIdle /\ SubstIdle /\ AppIdle

OlderIdle ==
  /\ BulkIdle /\ RetryIdle /\ PollIdle /\ DistIdle /\ GenIdle /\ SchemaIdle
  /\ ApiIdle /\ PingIdle /\ ReportIdle

ExtIdle ==
  GenIdle /\ SchemaIdle /\ ApiIdle /\ PingIdle /\ ReportIdle /\ MoreIdle

(***************************************************************************)
(* WebhookValidator.send_bulk_webhooks_async                               *)
(***************************************************************************)
Records == 1..Len(test_records)

NoResult == [kind |-> None]
NoOutcome == [kind |-> None, status |-> 0]

\* A fault that ends a delivery task without send_webhook_async having
\* converted it: gather(return_exceptions=True) collects the exception object.
\* CancelledError derives from BaseException, not from Exception.
Fault(kind, text) == [kind |-> kind, text |-> text]
TaskFaults == {Fault("Exception", "unexpected failure"),
               Fault("CancelledError", "")}

\* isinstance(response, Exception)
IsInstanceException(response) == response.kind = "Exception"

\* A variant of send_webhook_async whose timeout handler leaves error unset.
send_webhook_async_TimeoutNoError(record_id, outcome, t) ==
  IF outcome.kind = "status"
    THEN WebhookResponse(record_id, outcome.status, None, t)
  ELSE IF outcome.kind = "Timeout"
    THEN WebhookResponse(record_id, 0, None, t)
  ELSE WebhookResponse(record_id, 0, RequestFailedMsg, t)

\* send_webhook_async: the WebhookResponse built from the POST's outcome
send_webhook_async(record_id, outcome, t) ==
  IF outcome.kind = "status"
    THEN WebhookResponse(record_id, outcome.status, None, t)
  ELSE IF outcome.kind = "Timeout"
    THEN WebhookResponse(record_id, 0, TimeoutMsg, t)
  ELSE WebhookResponse(record_id, 0, RequestFailedMsg, t)

\* A variant of CanAcquire with no gate at all.
CanAcquire_NoGate(i) == TRUE

\* A variant of CanAcquire that dispatches in fixed batches of C: record i
\* starts only when every record of the earlier batches has finished.
CanAcquire_BatchOfC(i) ==
  /\ semaphore > 0
  /\ \A j \in 1..(((i - 1) \div concurrent_requests) * concurrent_requests) :
       task[j] = "finished"

\* async with semaphore: a slot can be taken
CanAcquire(i) == semaphore > 0

InFlight == {i \in Records : task[i] = "inflight"}

BulkStart ==
  /\ \E n \in 0..MaxRecords : test_records = [k \in 1..n |-> TestRecord(k)]
  /\ concurrent_requests \in 1..MaxConcurrent
  /\ semaphore = concurrent_requests
  /\ task = [i \in Records |-> "pending"]
  /\ responses = [i \in Records |-> NoResult]
  /\ posts = [i \in Records |-> 0]
  /\ post_outcome = [i \in Records |-> NoOutcome]
  /\ webhook_responses = <<>>
  /\ bulk_pc = "gather"

\* A variant of task_after_post that puts a failed delivery back in line.
task_after_post_RequeueFailure(outcome) ==
  IF outcome.kind = "status" /\ IsSuccess(outcome.status)
    THEN "finished" ELSE "pending"

\* send_with_semaphore returns whatever send_webhook_async returned: the task
\* of a record is over once its POST has ended, whatever the outcome
task_after_post(outcome) == "finished"

\* A variant of release_on_exit that keeps the slot of a task ended by a fault.
release_on_exit_OnlyOnReturn(slots, faulted) ==
  IF faulted THEN slots ELSE slots + 1

\* async with semaphore: the slot is given back when the body is left, by a
\* return or by an exception
release_on_exit(slots, faulted) == slots + 1

\* send_with_semaphore takes a slot and send_webhook_async issues the POST
\* (no suspension point lies between the two).
Acquire(i) ==
  /\ bulk_pc = "gather" /\ task[i] = "pending"
  /\ CanAcquire(i)
  /\ semaphore' = semaphore - 1
  /\ task' = [task EXCEPT ![i] = "inflight"]
  /\ posts' = [posts EXCEPT ![i] = @ + 1]
  /\ UNCHANGED <<test_records, concurrent_requests, responses, post_outcome,
                 webhook_responses, bulk_pc, now,
                 retry_vars, poll_vars, dist_vars, ext_vars>>

\* The POST of record i ends (response, timeout or error); send_webhook_async
\* returns a WebhookResponse and the slot is given back.
Complete(i) ==
  /\ bulk_pc = "gather" /\ task[i] = "inflight"
  /\ \E outcome \in PostOutcomes :
       /\ post_outcome' = [post_outcome EXCEPT ![i] = outcome]
       /\ responses' = [responses EXCEPT ![i] =
            send_webhook_async(test_records[i].record_id, outcome, now)]
       /\ task' = [task EXCEPT ![i] = task_after_post(outcome)]
  /\ now' = now + 1
  /\ semaphore' = release_on_exit(semaphore, FALSE)
  /\ UNCHANGED <<test_records, concurrent_requests, posts,
                 webhook_responses, bulk_pc,
                 retry_vars, poll_vars, dist_vars, ext_vars>>

\* The task of record i ends with a fault that nothing in it catches, while
\* it holds a slot: async with gives the slot back.
FaultInFlight(i) ==
  /\ bulk_pc = "gather" /\ task[i] = "inflight"
  /\ \E f \in TaskFaults : responses' = [responses EXCEPT ![i] = f]
  /\ semaphore' = release_on_exit(semaphore, TRUE)
  /\ task' = [task EXCEPT ![i] = "finished"]
  /\ UNCHANGED <<test_records, concurrent_requests, posts, post_outcome,
                 webhook_responses, bulk_pc, now,
                 retry_vars, poll_vars, dist_vars, ext_vars>>

\* The task of record i is cancelled while it waits for a slot.
CancelWaiting(i) ==
  /\ bulk_pc = "gather" /\ task[i] = "pending"
  /\ ~CanAcquire(i)
  /\ responses' = [responses EXCEPT ![i] = Fault("CancelledError", "")]
  /\ task' = [task EXCEPT ![i] = "finished"]
  /\ UNCHANGED <<test_records, concurrent_requests, semaphore, posts,
                 post_outcome, webhook_responses, bulk_pc, now,
                 retry_vars, poll_vars, dist_vars, ext_vars>>

\* The loop over the gathered results: one entry per record, in record order
Collect(i) ==
  IF IsInstanceException(responses[i])
    THEN WebhookResponse(test_records[i].record_id, 0, responses[i].text, now)
    ELSE responses[i]

\* gather has every task's result; the list is built and returned.
GatherReturn ==
  /\ bulk_pc = "gather"
  /\ \A i \in Records : task[i] = "finished"
  /\ webhook_responses' = [i \in Records |-> Collect(i)]
  /\ bulk_pc' = "returned"
  /\ UNCHANGED <<test_records, concurrent_requests, semaphore, task,
                 responses, posts, post_outcome, now,
                 retry_vars, poll_vars, dist_vars, ext_vars>>

InitBulk == now = 0 /\ BulkStart /\ RetryIdle /\ PollIdle /\ DistIdle /\ ExtIdle

NextBulk ==
  \/ \E i \in Records : Acquire(i)
  \/ \E i \in Records : Complete(i)
  \/ \E i \in Records : FaultInFlight(i)
  \/ \E i \in Records : CancelWaiting(i)
  \/ GatherReturn

SpecBulk == InitBulk /\ [][NextBulk]_vars

\* The scheduling of the event loop: a task that can take a slot is run (the
\* semaphore wakes its waiters in order), every POST ends within the client
\* timeout, and gather returns once every task is done.
FairBulk ==
  /\ \A i \in 1..MaxFairRecords : WF_vars(i \in Records /\ Acquire(i))
  /\ \A i \in 1..MaxFairRecords : WF_vars(i \in Records /\ (Complete(i) \/ FaultInFlight(i)))
  /\ WF_vars(GatherReturn)

\* The batches of the termination check.
InitBulkFair == InitBulk /\ Len(test_records) <= MaxFairRecords

SpecBulkFair == InitBulkFair /\ [][NextBulk]_vars /\ FairBulk

(***************************************************************************)
(* WebhookValidator.send_webhook_with_retry                                *)
(***************************************************************************)
\* self.retry_delay: webhook_settings.get('retry_delay', 5), in clock ticks
retry_delay == 5

\* the record_id the retried delivery is called with
RetryRecordId == RecordId(TestRunId, 1)

NoResponse == [kind |-> None]

\* The WebhookResponse one attempt builds: from the HTTP response, in the
\* handler of requests.exceptions.Timeout, or in the handler of Exception.
AttemptResponse(outcome, t) ==
  IF outcome.kind = "status"
    THEN WebhookResponse(RetryRecordId, outcome.status, None, t)
  ELSE IF outcome.kind = "Timeout"
    THEN WebhookResponse(RetryRecordId, 0, TimeoutMsg, t)
  ELSE WebhookResponse(RetryRecordId, 0, RequestFailedMsg, t)

\* A variant of SleepsAfter that also sleeps after the final attempt.
SleepsAfter_Always(a) == TRUE

\* if attempt < self.retry_attempts - 1: time.sleep(self.retry_delay)
SleepsAfter(a) == a < retry_attempts - 1

\* A variant of StoreLast that keeps the first failed response.
StoreLast_KeepFirst(previous, response) ==
  IF previous = NoResponse THEN response ELSE previous

\* last_response = webhook_response
StoreLast(previous, response) == response

\* A variant of ReturnsAtOnce that returns on status 200 only.
ReturnsAtOnce_Only200(outcome) ==
  outcome.kind = "status" /\ outcome.status = 200

\* if 200 <= response.status_code < 300: return webhook_response
ReturnsAtOnce(outcome) ==
  outcome.kind = "status" /\ IsSuccess(outcome.status)

PostEvent(a, outcome, t) ==
  [ev |-> "post", attempt |-> a, kind |-> outcome.kind,
   status |-> outcome.status, t |-> t]
SleepEvent(a, t) ==
  [ev |-> "sleep", attempt |-> a, kind |-> "sleep", status |-> 0, t |-> t]

RetryStart ==
  /\ retry_attempts \in 0..MaxRetry
  /\ attempt = 0
  /\ last_response = NoResponse
  /\ retry_result = NoResponse
  /\ retry_log = <<>>
  /\ retry_pc = "loop"

\* One iteration of the loop: the POST, its outcome, the early return or the
\* stored response, and the sleep that follows a failed attempt.
RetryAttempt ==
  /\ retry_pc = "loop" /\ attempt < retry_attempts
  /\ \E outcome \in PostOutcomes :
       LET t == now + 1
           response == AttemptResponse(outcome, t)
           posted == Append(retry_log, PostEvent(attempt, outcome, t))
       IN IF ReturnsAtOnce(outcome)
            THEN /\ retry_result' = response
                 /\ retry_pc' = "returned"
                 /\ retry_log' = posted
                 /\ now' = t
                 /\ UNCHANGED <<attempt, last_response>>
            ELSE /\ last_response' = StoreLast(last_response, response)
                 /\ attempt' = attempt + 1
                 /\ IF SleepsAfter(attempt)
                      THEN /\ retry_log' = Append(posted, SleepEvent(attempt, t))
                           /\ now' = t + retry_delay
                      ELSE /\ retry_log' = posted
                           /\ now' = t
                 /\ UNCHANGED <<retry_result, retry_pc>>
  /\ UNCHANGED <<retry_attempts, bulk_vars, poll_vars, dist_vars, ext_vars>>

\* The loop is exhausted: return last_response.
RetryExhausted ==
  /\ retry_pc = "loop" /\ attempt >= retry_attempts
  /\ retry_result' = last_response
  /\ retry_pc' = "returned"
  /\ UNCHANGED <<retry_attempts, attempt, last_response, retry_log, now,
                 bulk_vars, poll_vars, dist_vars, ext_vars>>

InitRetry == now = 0 /\ RetryStart /\ BulkIdle /\ PollIdle /\ DistIdle /\ ExtIdle

NextRetry == RetryAttempt \/ RetryExhausted

SpecRetry == InitRetry /\ [][NextRetry]_vars

\* the POSTs of the log, in order
RetryPosts == SelectSeq(retry_log, LAMBDA e : e.ev = "post")

(***************************************************************************)
(* BonzoAPIClient.wait_for_prospects                                       *)
(***************************************************************************)
\* the local prospects before its first assignment
Unbound == [bound |-> FALSE, list |-> <<>>]
Bound(list) == [bound |-> TRUE, list |-> list]

NoError == [kind |-> None, found |-> 0]

\* the list find_test_prospects returns when k remote prospects match
ProspectList(k) == [j \in 1..k |-> j]

\* A variant of DeadlineOpen that lets one more iteration start at the deadline.
DeadlineOpen_Inclusive == now - start_time <= timeout

\* while time.time() - start_time < timeout
DeadlineOpen == now - start_time < timeout

\* A variant of ReachedExpected that needs more than expected_count.
ReachedExpected_Strict(list) == Len(list) > expected_count

\* if len(prospects) >= expected_count
ReachedExpected(list) == Len(list) >= expected_count

FetchEvent(found, t) == [ev |-> "fetch", found |-> found, t |-> t]
PollSleepEvent(t) == [ev |-> "sleep", found |-> 0, t |-> t]

\* the fetches of the log, in order
PollFetches == SelectSeq(poll_log, LAMBDA e : e.ev = "fetch")

\* The model stops following a poll that cannot end by itself (no interval
\* between fetches) after MaxFetches fetches.
MayFetch == check_interval > 0 \/ Len(PollFetches) < MaxFetches

\* The calls of the model; the last is a poll of 1 s at 0.2 s intervals for 5
\* prospects, in ticks of 0.2 s.
PollStart ==
  /\ \/ /\ timeout \in 0..MaxTimeout
        /\ check_interval \in 0..MaxInterval
        /\ expected_count \in 1..MaxFound
     \/ /\ timeout = 5
        /\ check_interval = 1
        /\ expected_count = 5
  /\ start_time = now
  /\ prospects = Unbound
  /\ poll_result = <<>>
  /\ poll_error = NoError
  /\ poll_log = <<>>
  /\ poll_pc = "loop"

\* One iteration of the loop: the deadline test, a fetch that takes
\* duration ticks and finds found matching prospects, then the return or
\* the sleep.
PollIteration ==
  /\ poll_pc = "loop" /\ DeadlineOpen
  /\ MayFetch
  /\ \E duration \in 0..MaxFetchTime, found \in 0..MaxFound :
       LET t == now + duration
           fetched == Append(poll_log, FetchEvent(found, t))
       IN /\ prospects' = Bound(ProspectList(found))
          /\ IF ReachedExpected(ProspectList(found))
               THEN /\ poll_result' = ProspectList(found)
                    /\ poll_pc' = "returned"
                    /\ poll_log' = fetched
                    /\ now' = t
               ELSE /\ poll_log' = Append(fetched, PollSleepEvent(t))
                    /\ now' = t + check_interval
                    /\ UNCHANGED <<poll_result, poll_pc>>
  /\ UNCHANGED <<timeout, check_interval, expected_count, start_time,
                 poll_error, bulk_vars, retry_vars, dist_vars, ext_vars>>

\* A variant of after_fetch_error that goes on polling after a failed fetch.
after_fetch_error_KeepPolling(error) == "loop"

\* Where the call is after a fetch raised: neither find_test_prospects nor
\* the loop of wait_for_prospects has a handler, so the error leaves the call.
after_fetch_error(error) == "raised"

\* find_test_prospects raises BonzoAPIError (raised by _make_request): the
\* error leaves wait_for_prospects.
PollFetchRaises ==
  /\ poll_pc = "loop" /\ DeadlineOpen
  /\ MayFetch
  /\ \E duration \in 0..MaxFetchTime : now' = now + duration
  /\ poll_error' = [kind |-> "BonzoAPIError", found |-> 0]
  /\ poll_pc' = after_fetch_error(poll_error')
  /\ UNCHANGED <<timeout, check_interval, expected_count, start_time,
                 prospects, poll_result, poll_log,
                 bulk_vars, retry_vars, dist_vars, ext_vars>>

\* The loop ends on its deadline test: raise TimeoutError(... Found
\* {len(prospects)} ...). Reading prospects before its first assignment raises
\* UnboundLocalError instead.
PollDeadline ==
  /\ poll_pc = "loop" /\ ~DeadlineOpen
  /\ poll_error' =
       IF prospects.bound
         THEN [kind |-> "TimeoutError", found |-> Len(prospects.list)]
         ELSE [kind |-> "UnboundLocalError", found |-> 0]
  /\ poll_pc' = "raised"
  /\ UNCHANGED <<timeout, check_interval, expected_count, start_time,
                 prospects, poll_result, poll_log, now,
                 bulk_vars, retry_vars, dist_vars, ext_vars>>

InitPoll == now = 0 /\ PollStart /\ BulkIdle /\ RetryIdle /\ DistIdle /\ ExtIdle

NextPoll == PollIteration \/ PollFetchRaises \/ PollDeadline

SpecPoll == InitPoll /\ [][NextPoll]_vars

(***************************************************************************)
(* TestDataFactory._calculate_user_distribution                            *)
(***************************************************************************)
\* the distribution names the method accepts, and one it does not
KnownDistributions == {"even", "weighted", "custom"}
DistributionNames == KnownDistributions \cup {"random"}

\* base_count = total_records // len(users)
base_count == total_records \div num_users

\* remainder = total_records % len(users)
remainder == total_records % num_users

\* A variant of UserCount that gives the extra record to one user too many.
UserCount_Inclusive(i) == base_count + (IF i <= remainder THEN 1 ELSE 0)

\* count = base_count + (1 if i < remainder else 0), i the 0-based user index
UserCount(i) == base_count + (IF i < remainder THEN 1 ELSE 0)

\* A variant of the helper that gives the extra records to the last users.
calculate_user_distribution_even_ExtraLast(i) ==
  (total_records \div num_users)
    + (IF i >= num_users - (total_records % num_users) THEN 1 ELSE 0)

\* _calculate_user_distribution_even(total_records): the count of user i
calculate_user_distribution_even(i) ==
  (total_records \div num_users)
    + (IF i < total_records % num_users THEN 1 ELSE 0)

\* user_distributions[i], i the 0-based user index
CountOf(i) == user_distributions[i + 1]

DistStart ==
  /\ total_records \in 0..MaxTotal
  /\ num_users \in 1..MaxUsers
  /\ distribution_method \in DistributionNames
  /\ user_distributions = <<>>
  /\ dist_pc = "loop"

\* One iteration of for i, user in enumerate(users), in the even branch or
\* in _calculate_user_distribution_even (weighted and custom fall back to it).
DistAssign ==
  /\ dist_pc = "loop" /\ distribution_method \in KnownDistributions
  /\ Len(user_distributions) < num_users
  /\ user_distributions' =
       Append(user_distributions,
              IF distribution_method = "even"
                THEN UserCount(Len(user_distributions))
                ELSE calculate_user_distribution_even(
                       Len(user_distributions)))
  /\ UNCHANGED <<total_records, num_users, distribution_method, dist_pc, now,
                 bulk_vars, retry_vars, poll_vars, ext_vars>>

\* return user_distributions
DistReturn ==
  /\ dist_pc = "loop" /\ distribution_method \in KnownDistributions
  /\ Len(user_distributions) = num_users
  /\ dist_pc' = "returned"
  /\ UNCHANGED <<total_records, num_users, distribution_method,
                 user_distributions, now, bulk_vars, retry_vars, poll_vars, ext_vars>>

\* raise ValueError(f"Unknown distribution method: ...")
DistUnknown ==
  /\ dist_pc = "loop" /\ distribution_method \notin KnownDistributions
  /\ dist_pc' = "raised"
  /\ UNCHANGED <<total_records, num_users, distribution_method,
                 user_distributions, now, bulk_vars, retry_vars, poll_vars, ext_vars>>

InitDist == now = 0 /\ DistStart /\ BulkIdle /\ RetryIdle /\ PollIdle /\ ExtIdle

NextDist == DistAssign \/ DistReturn \/ DistUnknown

SpecDist == InitDist /\ [][NextDist]_vars

(***************************************************************************)
(* TestDataFactory.generate_test_records and validate_test_records         *)
(***************************************************************************)
\* config.test_users[i], i the 0-based index: users with distinct emails
TestUser(i) ==
  [name |-> "User" \o ToString(i),
   email |-> "lo" \o ToString(i) \o "@bonzobuddy.test",
   user_id |-> 100 + i, team_id |-> 7]

IntegrationType == "monitorbase"

\* A variant of generate_test_data that numbers every email alike.
generate_test_data_SameSuffix(record_id, sequence_number) ==
  [first_name |-> "TestRecord_" \o Pad3(sequence_number),
   last_name |-> "Test",
   email |-> "test." \o IntegrationType \o "." \o Pad3(1)
               \o "@bonzobuddy.test",
   record_id |-> record_id]

\* _generate_test_data with the default settings: the keys a template of the
\* model refers to (phone, address and the timestamps are not referred to).
generate_test_data(record_id, sequence_number) ==
  [first_name |-> "TestRecord_" \o Pad3(sequence_number),
   last_name |-> "Test",
   email |-> "test." \o IntegrationType \o "." \o Pad3(sequence_number)
               \o "@bonzobuddy.test",
   record_id |-> record_id]

\* A template value is a string, held as the sequence of its parts: a part
\* is a placeholder or literal text.
\* payload_str.replace(...) for each placeholder, on one part
replace_part(part, user, test_data, record_id) ==
  CASE part = "{user.email}"   -> user.email
    [] part = "{user.id}"      -> ToString(user.user_id)
    [] part = "{user.user_id}" -> ToString(user.user_id)
    [] part = "{team.id}"      -> ToString(user.team_id)
    [] part = "{first_name}"   -> test_data.first_name
    [] part = "{last_name}"    -> test_data.last_name
    [] part = "{email}"        -> test_data.email
    [] part = "{record_id}"    -> record_id
    [] OTHER                   -> part

RECURSIVE replace_parts(_, _, _, _)
replace_parts(parts, user, test_data, record_id) ==
  IF parts = <<>> THEN ""
  ELSE replace_part(Head(parts), user, test_data, record_id)
         \o replace_parts(Tail(parts), user, test_data, record_id)

\* _replace_template_variables
replace_template_variables(template, user, test_data, record_id) ==
  [key \in DOMAIN template |->
     replace_parts(template[key], user, test_data, record_id)]

\* _generate_payload
generate_payload(user, record_id, sequence_number) ==
  replace_template_variables(payload_template, user,
     generate_test_data(record_id, sequence_number), record_id)

\* A variant of template_after_generate that fills the template itself.
template_after_generate_FilledInPlace(user, record_id, sequence_number) ==
  [key \in DOMAIN payload_template |->
     <<generate_payload(user, record_id, sequence_number)[key]>>]

\* self.payload_template once _generate_payload has returned: the payload is
\* built on json.loads(json.dumps(self.payload_template)), a copy
template_after_generate(user, record_id, sequence_number) ==
  payload_template

\* A variant of test_record that gives every record the first user's identity.
test_record_FirstUser(user, record_id, counter) ==
  [record_id |-> record_id, user_email |-> TestUser(0).email,
   user_id |-> TestUser(0).user_id, team_id |-> TestUser(0).team_id,
   payload |-> generate_payload(user, record_id, counter),
   sequence_number |-> counter]

\* A variant of test_record that numbers the records of each user from 1.
test_record_PerUserNumber(user, record_id, counter) ==
  [record_id |-> record_id, user_email |-> user.email,
   user_id |-> user.user_id, team_id |-> user.team_id,
   payload |-> generate_payload(user, record_id, counter),
   sequence_number |-> user_i + 1]

\* test_record = TestRecord(record_id=..., ..., sequence_number=record_counter)
test_record(user, record_id, counter) ==
  [record_id |-> record_id, user_email |-> user.email,
   user_id |-> user.user_id, team_id |-> user.team_id,
   payload |-> generate_payload(user, record_id, counter),
   sequence_number |-> counter]

\* The payload templates of the model.
StandardTemplate ==
  [first_name |-> <<"{first_name}">>, email |-> <<"{email}">>]
MonitorbaseTemplate ==
  [first_name |-> <<"{first_name}">>, email |-> <<"{email}">>,
   lo_email |-> <<"{user.email}">>]
SuperuserTemplate ==
  [first_name |-> <<"{first_name}">>, email |-> <<"{email}">>,
   user_id |-> <<"{user.id}">>]
TaggedEmailTemplate ==
  [first_name |-> <<"{first_name}">>,
   email |-> <<"lead+", "{record_id}", "@example.com">>]
LoEmailOnlyTemplate ==
  [first_name |-> <<"{first_name}">>, lo_email |-> <<"{user.email}">>]
StaticEmailTemplate ==
  [first_name |-> <<"{first_name}">>, email |-> <<"lead@example.com">>]
NoNameTemplate == [email |-> <<"{email}">>]
EmptyNameTemplate == [first_name |-> <<>>, email |-> <<"{email}">>]
NoEmailTemplate == [first_name |-> <<"{first_name}">>]
EmptyUserIdTemplate ==
  [first_name |-> <<"{first_name}">>, email |-> <<"{email}">>,
   user_id |-> <<>>]

PayloadTemplates ==
  {StandardTemplate, MonitorbaseTemplate, SuperuserTemplate,
   TaggedEmailTemplate, LoEmailOnlyTemplate, StaticEmailTemplate,
   NoNameTemplate, EmptyNameTemplate, NoEmailTemplate, EmptyUserIdTemplate}

\* dict.get(key, default)
Get(dict, key, default) ==
  IF key \in DOMAIN dict THEN dict[key] ELSE default

\* not value, for a value that is a string or None
Falsy(value) == value = None \/ value = ""

\* The entries one record adds to validation_errors, in order.
record_errors(record) ==
  (IF Falsy(Get(record.payload, "first_name", None))
     THEN <<"Missing first_name in record " \o record.record_id>>
     ELSE <<>>)
  \o (IF /\ Falsy(Get(record.payload, "lo_email", None))
         /\ Falsy(Get(record.payload, "email", None))
        THEN <<"Missing email field in record " \o record.record_id>>
        ELSE <<>>)
  \o (IF /\ "user_id" \in DOMAIN record.payload
         /\ Falsy(Get(record.payload, "user_id", None))
        THEN <<"Missing user_id in record " \o record.record_id>>
        ELSE <<>>)

\* for record in records: the entries of records[lo..hi], in list order
\* (computed by halves, which gives the order of the loop)
RECURSIVE collect_errors(_, _, _)
collect_errors(recs, lo, hi) ==
  IF lo > hi THEN <<>>
  ELSE IF lo = hi THEN record_errors(recs[lo])
  ELSE collect_errors(recs, lo, (lo + hi) \div 2)
         \o collect_errors(recs, (lo + hi) \div 2 + 1, hi)

\* validate_test_records(records)
validate_test_records(recs) ==
  LET unique_emails ==
        {Get(recs[k].payload, "email", "") : k \in 1..Len(recs)}
      unique_record_ids == {recs[k].record_id : k \in 1..Len(recs)}
  IN [total_records |-> Len(recs),
      expected_records |-> total_records,
      records_match |-> (Len(recs) = total_records),
      user_distribution |->
        [u \in 1..num_users |->
           Cardinality({k \in 1..Len(recs) :
                          recs[k].user_email = TestUser(u - 1).email})],
      unique_emails |-> unique_emails,
      unique_record_ids |-> unique_record_ids,
      validation_errors |-> collect_errors(recs, 1, Len(recs)),
      emails_unique |-> (Cardinality(unique_emails) = Len(recs)),
      record_ids_unique |-> (Cardinality(unique_record_ids) = Len(recs))]

\* The lists a caller hands to validate_test_records: the generated list,
\* the list without its last record, the list with its first record repeated.
SubmittedLists ==
  {records}
    \cup (IF records # <<>> /\ Len(records) <= MaxTotal
            THEN {SubSeq(records, 1, Len(records) - 1),
                  Append(records, records[1])}
            ELSE {})

GenStart ==
  /\ \/ /\ total_records \in 0..MaxTotal
        /\ num_users \in 1..MaxUsers
        /\ distribution_method \in DistributionNames
        /\ payload_template \in PayloadTemplates
     \/ /\ total_records = LargeTotal
        /\ num_users = 2
        /\ distribution_method = "even"
        /\ payload_template = StandardTemplate
  /\ user_distributions = <<>> /\ dist_pc = "loop"
  /\ records = <<>> /\ record_counter = 0
  /\ user_index = 0 /\ user_i = 0 /\ submitted_records = <<>>
  /\ validation_results = NoValidation
  /\ gen_pc = "distribute"

\* record_counter = 1, once _calculate_user_distribution has returned
GenBegin ==
  /\ gen_pc = "distribute" /\ dist_pc = "returned"
  /\ record_counter' = 1 /\ user_index' = 0 /\ user_i' = 0
  /\ gen_pc' = "generate"
  /\ UNCHANGED <<payload_template, records, submitted_records,
                 validation_results, now,
                 bulk_vars, retry_vars, poll_vars, dist_vars,
                 schema_vars, api_vars, ping_vars, report_vars, more_vars>>

\* the ValueError of _calculate_user_distribution leaves generate_test_records
GenRaise ==
  /\ gen_pc = "distribute" /\ dist_pc = "raised"
  /\ gen_pc' = "raised"
  /\ UNCHANGED <<payload_template, records, record_counter, user_index,
                 user_i, submitted_records, validation_results, now,
                 bulk_vars, retry_vars, poll_vars, dist_vars,
                 schema_vars, api_vars, ping_vars, report_vars, more_vars>>

\* One iteration of for i in range(count)
GenRecord ==
  /\ gen_pc = "generate" /\ user_index < num_users
  /\ user_i < CountOf(user_index)
  /\ records' =
       Append(records,
              test_record(TestUser(user_index),
                          RecordId(TestRunId, record_counter),
                          record_counter))
  /\ payload_template' =
       template_after_generate(TestUser(user_index),
                               RecordId(TestRunId, record_counter),
                               record_counter)
  /\ record_counter' = record_counter + 1
  /\ user_i' = user_i + 1
  /\ UNCHANGED <<user_index, submitted_records,
                 validation_results, gen_pc, now,
                 bulk_vars, retry_vars, poll_vars, dist_vars,
                 schema_vars, api_vars, ping_vars, report_vars, more_vars>>

\* for user_index, count in user_distributions.items(): the next user
GenNextUser ==
  /\ gen_pc = "generate" /\ user_index < num_users
  /\ user_i = CountOf(user_index)
  /\ user_index' = user_index + 1 /\ user_i' = 0
  /\ UNCHANGED <<payload_template, records, record_counter,
                 submitted_records, validation_results, gen_pc, now,
                 bulk_vars, retry_vars, poll_vars, dist_vars,
                 schema_vars, api_vars, ping_vars, report_vars, more_vars>>

\* return records
GenReturn ==
  /\ gen_pc = "generate" /\ user_index = num_users
  /\ gen_pc' = "returned"
  /\ UNCHANGED <<payload_template, records, record_counter, user_index,
                 user_i, submitted_records, validation_results, now,
                 bulk_vars, retry_vars, poll_vars, dist_vars,
                 schema_vars, api_vars, ping_vars, report_vars, more_vars>>

\* validation_results = factory.validate_test_records(...)
Validate ==
  /\ gen_pc = "returned"
  /\ \E recs \in SubmittedLists :
       /\ submitted_records' = recs
       /\ validation_results' = validate_test_records(recs)
  /\ gen_pc' = "validated"
  /\ UNCHANGED <<payload_template, records, record_counter, user_index,
                 user_i, now, bulk_vars, retry_vars, poll_vars, dist_vars,
                 schema_vars, api_vars, ping_vars, report_vars, more_vars>>

InitGen ==
  /\ now = 0 /\ GenStart
  /\ BulkIdle /\ RetryIdle /\ PollIdle /\ SchemaIdle /\ ApiIdle /\ PingIdle
  /\ ReportIdle /\ MoreIdle

NextGen ==
  \/ DistAssign \/ DistReturn \/ DistUnknown
  \/ GenBegin \/ GenRaise \/ GenRecord \/ GenNextUser \/ GenReturn
  \/ Validate

SpecGen == InitGen /\ [][NextGen]_vars

(***************************************************************************)
(* IntegrationSchema: from_json_file, _convert_json_field,                 *)
(* SchemaNode.get_value and generate_payload (app/models/schemas.py)       *)
(***************************************************************************)
\* class DynamicFieldType
DynamicFieldType == {"firstName", "lastName", "email", "phone"}

\* An empty dictionary.
EmptyDict == [k \in {} |-> k]

\* SchemaNode(type, static, dynamic, properties); an Optional field is <<>>
\* for None and <<v>> for the value v
SchemaNode(type, static, dynamic, properties) ==
  [type |-> type, static |-> static, dynamic |-> dynamic,
   properties |-> properties]

\* _convert_json_field(field_def)
RECURSIVE convert_json_field(_)
convert_json_field(field_def) ==
  LET keys == DOMAIN field_def
      recognised ==
        "dynamic" \in keys /\ field_def["dynamic"] \in DynamicFieldType
  IN SchemaNode(
       IF "type" \in keys THEN field_def["type"] ELSE "string",
       IF "dynamic" \in keys /\ ~recognised
         THEN <<"UNKNOWN_DYNAMIC:" \o field_def["dynamic"]>>
         ELSE IF "static" \in keys THEN <<field_def["static"]>> ELSE <<>>,
       IF recognised THEN <<field_def["dynamic"]>> ELSE <<>>,
       IF "properties" \in keys
         THEN <<[prop_name \in DOMAIN field_def["properties"] |->
                   convert_json_field(field_def["properties"][prop_name])]>>
         ELSE <<>>)

\* SchemaNode.node_type
node_type(node) ==
  IF node.dynamic # <<>> THEN "dynamic"
  ELSE IF node.properties # <<>> THEN "object"
  ELSE "static"

RECURSIVE get_value(_, _)

\* A variant of get_value in which a dynamic node yields its key.
get_value_KeyName(node, data) ==
  IF node_type(node) = "dynamic" THEN node.dynamic[1]
  ELSE IF node_type(node) = "static"
    THEN IF node.static = <<>> THEN None ELSE node.static[1]
  ELSE [field_name \in DOMAIN node.properties[1] |->
          get_value(node.properties[1][field_name], data)]

\* SchemaNode.get_value(prospect_data)
get_value(node, data) ==
  IF node_type(node) = "dynamic"
    THEN Get(data, node.dynamic[1], None)
  ELSE IF node_type(node) = "static"
    THEN IF node.static = <<>> THEN None ELSE node.static[1]
  ELSE [field_name \in DOMAIN node.properties[1] |->
          get_value(node.properties[1][field_name], data)]

\* The definitions of the top-level field "name" in the model's templates.
NameDefs ==
  {[type |-> "string", dynamic |-> "firstName"],
   [type |-> "string", dynamic |-> "email"],
   [dynamic |-> "lastName"],
   [type |-> "string", dynamic |-> "middleName"],
   [type |-> "string", static |-> "Lead"],
   [type |-> "string", static |-> "Lead", dynamic |-> "firstName"],
   [type |-> "string"]}

SrcStatic == [src |-> [type |-> "string", static |-> "test"]]
SrcDynamic == [src |-> [type |-> "string", dynamic |-> "email"]]

\* The definitions of the top-level field "meta" in the model's templates.
MetaDefs ==
  {[type |-> "object", properties |-> SrcStatic],
   [type |-> "object", properties |-> SrcDynamic],
   [type |-> "object", properties |-> EmptyDict],
   [type |-> "object",
    properties |-> [inner |-> [type |-> "object", properties |-> SrcStatic]]],
   [type |-> "object", static |-> "x", properties |-> SrcStatic],
   [type |-> "object", dynamic |-> "phone", properties |-> SrcStatic],
   [type |-> "object", dynamic |-> "nickname", properties |-> SrcStatic]}

AllProspectData ==
  [firstName |-> "Ann", lastName |-> "Lee", email |-> "ann@example.com",
   phone |-> "555-0100"]

\* The key sets of the substitution maps of the model.
ProspectKeySets ==
  {{}, {"firstName"}, {"firstName", "lastName", "email", "phone"}}

SchemaStart ==
  /\ \E name_def \in NameDefs, meta_def \in MetaDefs :
       schema_data = [name |-> name_def, meta |-> meta_def]
  /\ \E keys \in ProspectKeySets :
       prospect_data = [k \in keys |-> AllProspectData[k]]
  /\ fields = <<>> /\ payload = <<>>
  /\ schema_pc = "loaded"

\* from_json_file: for field_name, field_def in schema_data.items()
SchemaConvert ==
  /\ schema_pc = "loaded"
  /\ fields' = [field_name \in DOMAIN schema_data |->
                  convert_json_field(schema_data[field_name])]
  /\ schema_pc' = "converted"
  /\ UNCHANGED <<schema_data, prospect_data, payload, now,
                 bulk_vars, retry_vars, poll_vars, dist_vars, gen_vars,
                 api_vars, ping_vars, report_vars, more_vars>>

\* IntegrationSchema.generate_payload(prospect_data)
GeneratePayload ==
  /\ schema_pc = "converted"
  /\ payload' = [field_name \in DOMAIN fields |->
                   get_value(fields[field_name], prospect_data)]
  /\ schema_pc' = "resolved"
  /\ UNCHANGED <<schema_data, fields, prospect_data, now,
                 bulk_vars, retry_vars, poll_vars, dist_vars, gen_vars,
                 api_vars, ping_vars, report_vars, more_vars>>

InitSchema ==
  /\ now = 0 /\ SchemaStart
  /\ BulkIdle /\ RetryIdle /\ PollIdle /\ DistIdle /\ GenIdle /\ ApiIdle
  /\ PingIdle /\ ReportIdle /\ MoreIdle

NextSchema == SchemaConvert \/ GeneratePayload

SpecSchema == InitSchema /\ [][NextSchema]_vars

(***************************************************************************)
(* BonzoAPIClient._make_request (scripts/bonzo_api_client.py)              *)
(***************************************************************************)
\* the user_id arguments of the model: None, 0 and a user's id
ApiUserIds == {<<>>, <<0>>, <<5>>}

\* the status codes the remote answers with in the model
ApiStatuses == {200, 204, 302, 399, 400, 404, 500}

\* The response bodies of the model: the bytes read, and what json.loads
\* makes of them (<<>> when it raises JSONDecodeError).
ApiBodies ==
  {[text |-> "", json |-> <<>>],
   [text |-> "{message: Unauthorized}",
    json |-> <<[message |-> "Unauthorized"]>>],
   [text |-> "{error: Not found}", json |-> <<[error |-> "Not found"]>>],
   [text |-> "{data: []}", json |-> <<[data |-> <<>>]>>],
   [text |-> "Bad Gateway", json |-> <<>>]}

\* What the connection and the remote do in one call: the connection cannot
\* be constructed, a step of the exchange raises, or a response arrives.
ApiRemotes ==
  {[kind |-> "InvalidURL", text |-> "nonnumeric port: 'x'"]}
    \cup [kind : {"transport"},
          text : {"Connection refused", "timed out", "Connection reset"}]
    \cup [kind : {"response"}, status : ApiStatuses, body : ApiBodies]

Raise(error, message) ==
  [kind |-> "raise", error |-> error, message |-> message]

Return(data) == [kind |-> "return", data |-> data]

\* the parsing of response_data
parsed_data(body) ==
  IF body.text # ""
    THEN IF body.json # <<>> THEN body.json[1]
         ELSE [raw_response |-> body.text]
    ELSE EmptyDict

\* error_msg of the status check
error_msg(status, parsed) ==
  "API request failed with status " \o ToString(status)
    \o (IF "message" \in DOMAIN parsed THEN ": " \o parsed["message"]
        ELSE IF "error" \in DOMAIN parsed THEN ": " \o parsed["error"]
        ELSE "")

\* response.status >= 400
IsErrorStatus(status) == status >= 400

ApiStart ==
  /\ api_user_id \in ApiUserIds
  /\ api_remote \in ApiRemotes
  /\ conn = "unbound" /\ headers = {}
  /\ api_pending = Nothing /\ api_result = Nothing
  /\ api_pc = "try"

\* conn = http.client.HTTPSConnection(self.base_url)
ApiConnect ==
  /\ api_pc = "try"
  /\ IF api_remote.kind = "InvalidURL"
       THEN /\ api_pending' = Raise("InvalidURL", api_remote.text)
            /\ api_pc' = "except"
            /\ UNCHANGED conn
       ELSE /\ conn' = "open"
            /\ api_pc' = "request"
            /\ UNCHANGED api_pending
  /\ UNCHANGED <<api_user_id, api_remote, headers, api_result, now,
                 bulk_vars, retry_vars, poll_vars, dist_vars, gen_vars,
                 schema_vars, ping_vars, report_vars, more_vars>>

\* the headers, then conn.request, conn.getresponse and response.read
ApiRequest ==
  /\ api_pc = "request"
  /\ headers' =
       {"Accept", "Authorization", "Content-Type"}
         \cup (IF api_user_id # <<>> /\ api_user_id[1] # 0
                 THEN {"On-Behalf-Of"} ELSE {})
  /\ IF api_remote.kind = "transport"
       THEN /\ api_pending' = Raise("OSError", api_remote.text)
            /\ api_pc' = "except"
       ELSE /\ api_pc' = "check"
            /\ UNCHANGED api_pending
  /\ UNCHANGED <<api_user_id, api_remote, conn, api_result, now,
                 bulk_vars, retry_vars, poll_vars, dist_vars, gen_vars,
                 schema_vars, ping_vars, report_vars, more_vars>>

\* the parsing of the body and the status check
ApiCheck ==
  /\ api_pc = "check"
  /\ LET parsed == parsed_data(api_remote.body)
     IN IF IsErrorStatus(api_remote.status)
          THEN /\ api_pending' =
                    Raise("BonzoAPIError",
                          error_msg(api_remote.status, parsed))
               /\ api_pc' = "except"
          ELSE /\ api_pending' = Return(parsed)
               /\ api_pc' = "finally"
  /\ UNCHANGED <<api_user_id, api_remote, conn, headers, api_result, now,
                 bulk_vars, retry_vars, poll_vars, dist_vars, gen_vars,
                 schema_vars, ping_vars, report_vars, more_vars>>

\* except Exception as e: re-raise a BonzoAPIError, wrap anything else
ApiExcept ==
  /\ api_pc = "except"
  /\ api_pending' =
       IF api_pending.error = "BonzoAPIError" THEN api_pending
       ELSE Raise("BonzoAPIError",
                  "API request failed: " \o api_pending.message)
  /\ api_pc' = "finally"
  /\ UNCHANGED <<api_user_id, api_remote, conn, headers, api_result, now,
                 bulk_vars, retry_vars, poll_vars, dist_vars, gen_vars,
                 schema_vars, ping_vars, report_vars, more_vars>>

\* finally: conn.close(); with conn unbound the name lookup raises
ApiFinally ==
  /\ api_pc = "finally"
  /\ IF conn = "unbound"
       THEN /\ api_result' =
                 Raise("UnboundLocalError",
                       "cannot access local variable 'conn'")
            /\ UNCHANGED conn
       ELSE /\ conn' = "closed"
            /\ api_result' = api_pending
  /\ api_pc' = "done"
  /\ UNCHANGED <<api_user_id, api_remote, headers, api_pending, now,
                 bulk_vars, retry_vars, poll_vars, dist_vars, gen_vars,
                 schema_vars, ping_vars, report_vars, more_vars>>

InitApi ==
  /\ now = 0 /\ ApiStart
  /\ BulkIdle /\ RetryIdle /\ PollIdle /\ DistIdle /\ GenIdle /\ SchemaIdle
  /\ PingIdle /\ ReportIdle /\ MoreIdle

NextApi == ApiConnect \/ ApiRequest \/ ApiCheck \/ ApiExcept \/ ApiFinally

SpecApi == InitApi /\ [][NextApi]_vars

(***************************************************************************)
(* WebhookValidator.__init__ and validate_webhook_endpoint                 *)
(***************************************************************************)
GoodUrl == "https://hooks.example.com/a"
OtherUrl == "https://other.example.com/b"
NoSchemeUrl == "hooks.example.com/a"
NoHostUrl == "https:///a"

\* urlparse(url): the scheme and the netloc of the model's URLs
urlparse(url) ==
  CASE url = GoodUrl     -> [scheme |-> "https", netloc |-> "hooks.example.com"]
    [] url = OtherUrl    -> [scheme |-> "https", netloc |-> "other.example.com"]
    [] url = NoHostUrl   -> [scheme |-> "https", netloc |-> ""]
    [] OTHER             -> [scheme |-> "", netloc |-> ""]

\* not parsed_url.scheme or not parsed_url.netloc
InvalidFormat(url) == urlparse(url).scheme = "" \/ urlparse(url).netloc = ""

\* webhook_url or config.webhook_url
EffectiveUrl(override, configured) ==
  IF override = None \/ override = "" THEN configured ELSE override

\* How requests.post to a URL can end: requests refuses a URL it cannot
\* prepare; otherwise a response of any status, a timeout, a connection
\* error or another exception.
PingOutcomes(url) ==
  IF InvalidFormat(url)
    THEN {[kind |-> "Exception", status |-> 0,
           text |-> "Invalid URL: No scheme supplied"]}
    ELSE [kind : {"status"}, status : HttpStatuses, text : {""}]
           \cup {[kind |-> "Timeout", status |-> 0, text |-> ""],
                 [kind |-> "ConnectionError", status |-> 0, text |-> ""],
                 [kind |-> "Exception", status |-> 0,
                  text |-> "certificate verify failed"]}

NotSent == [kind |-> "NotSent", status |-> 0, text |-> ""]

\* A variant of failure_error that words a timeout as a connection error.
failure_error_TimeoutAsConnection(outcome) ==
  CASE outcome.kind = "NotSent"         -> "Invalid webhook URL format"
    [] outcome.kind = "Timeout"         -> "Cannot connect to webhook endpoint"
    [] outcome.kind = "ConnectionError" -> "Cannot connect to webhook endpoint"
    [] outcome.kind = "Exception"       -> "Validation failed: " \o outcome.text
    [] OTHER                            -> None

\* results['error'] of each branch, with the default timeout of 30
failure_error(outcome) ==
  CASE outcome.kind = "NotSent"         -> "Invalid webhook URL format"
    [] outcome.kind = "Timeout"         -> "Endpoint timeout after 30s"
    [] outcome.kind = "ConnectionError" -> "Cannot connect to webhook endpoint"
    [] outcome.kind = "Exception"       -> "Validation failed: " \o outcome.text
    [] OTHER                            -> None

\* A variant of ping_result that takes only a 2xx response as reachable.
ping_result_Only2xx(outcome, elapsed) ==
  IF outcome.kind = "status" /\ IsSuccess(outcome.status)
    THEN [endpoint_reachable |-> TRUE, supports_post |-> TRUE,
          accepts_json |-> TRUE, response_time |-> elapsed,
          error |-> None, status_code |-> <<outcome.status>>]
    ELSE [endpoint_reachable |-> FALSE, supports_post |-> FALSE,
          accepts_json |-> FALSE, response_time |-> 0,
          error |-> failure_error(outcome), status_code |-> <<>>]

\* the results dictionary built for one call
ping_result(outcome, elapsed) ==
  IF outcome.kind = "status"
    THEN [endpoint_reachable |-> TRUE, supports_post |-> TRUE,
          accepts_json |-> TRUE, response_time |-> elapsed,
          error |-> None, status_code |-> <<outcome.status>>]
    ELSE [endpoint_reachable |-> FALSE, supports_post |-> FALSE,
          accepts_json |-> FALSE, response_time |-> 0,
          error |-> failure_error(outcome), status_code |-> <<>>]

PingStart ==
  /\ config_webhook_url \in {GoodUrl, NoSchemeUrl, NoHostUrl}
  /\ override_webhook_url \in {None, "", OtherUrl, NoSchemeUrl}
  /\ webhook_url = None
  /\ ping_calls = <<>> /\ ping_results = <<>>
  /\ ping_pc = "new"

\* WebhookValidator.__init__
PingConstruct ==
  /\ ping_pc = "new"
  /\ webhook_url' = EffectiveUrl(override_webhook_url, config_webhook_url)
  /\ ping_pc' = "ready"
  /\ UNCHANGED <<config_webhook_url, override_webhook_url, ping_calls,
                 ping_results, now, bulk_vars, retry_vars, poll_vars,
                 dist_vars, gen_vars, schema_vars, api_vars, report_vars, more_vars>>

\* parsed_url = urlparse(self.config.webhook_url): the URL whose format
\* validate_webhook_endpoint checks
format_checked_url == config_webhook_url

\* validate_webhook_endpoint, stopped at the format check
PingInvalidFormat ==
  /\ ping_pc = "ready" /\ Len(ping_results) < MaxPings
  /\ InvalidFormat(format_checked_url)
  /\ ping_calls' = Append(ping_calls, [posted |-> None, outcome |-> NotSent])
  /\ ping_results' = Append(ping_results, ping_result(NotSent, 0))
  /\ UNCHANGED <<config_webhook_url, override_webhook_url, webhook_url,
                 ping_pc, now, bulk_vars, retry_vars, poll_vars,
                 dist_vars, gen_vars, schema_vars, api_vars, report_vars, more_vars>>

\* validate_webhook_endpoint, with the ping POST
PingPost ==
  /\ ping_pc = "ready" /\ Len(ping_results) < MaxPings
  /\ ~InvalidFormat(format_checked_url)
  /\ \E outcome \in PingOutcomes(webhook_url), elapsed \in 0..MaxPingTime :
       /\ now' = now + elapsed
       /\ ping_calls' =
            Append(ping_calls, [posted |-> webhook_url, outcome |-> outcome])
       /\ ping_results' = Append(ping_results, ping_result(outcome, elapsed))
  /\ UNCHANGED <<config_webhook_url, override_webhook_url, webhook_url,
                 ping_pc, bulk_vars, retry_vars, poll_vars,
                 dist_vars, gen_vars, schema_vars, api_vars, report_vars, more_vars>>

InitPing ==
  /\ now = 0 /\ PingStart
  /\ BulkIdle /\ RetryIdle /\ PollIdle /\ DistIdle /\ GenIdle /\ SchemaIdle
  /\ ApiIdle /\ ReportIdle /\ MoreIdle

NextPing == PingConstruct \/ PingInvalidFormat \/ PingPost

SpecPing == InitPing /\ [][NextPing]_vars

(***************************************************************************)
(* WebhookDeliveryStats.from_responses and                                 *)
(* WebhookValidator.generate_delivery_report                               *)
(***************************************************************************)
\* the status codes of the reported responses; 0 is a delivery that got no
\* HTTP response
ReportStatuses == {0, 200, 299, 300, 500}

\* the response times of the reported responses, in clock ticks
ResponseTimes == {0, 2, 3}

\* the WebhookResponse of the k-th record
DeliveredResponse(k, status_code, response_time) ==
  [kind |-> "WebhookResponse", record_id |-> RecordId(TestRunId, k),
   status_code |-> status_code, response_text |-> "",
   response_time |-> response_time,
   error |-> IF status_code = 0 THEN TimeoutMsg ELSE None]

\* five deliveries of which the second and the fourth were answered 500
Scenario3Responses ==
  [k \in 1..5 |->
     DeliveredResponse(k, IF k \in {2, 4} THEN 500 ELSE 200, 2)]

\* the response lists of the model
ResponseLists ==
  UNION {[1..n -> ReportStatuses \X ResponseTimes] : n \in 0..MaxResponses}

RECURSIVE Sum(_, _)
\* sum(f[x] for x in S)
Sum(f, S) ==
  IF S = {} THEN 0
  ELSE LET x == CHOOSE y \in S : TRUE IN f[x] + Sum(f, S \ {x})

\* max(values), the values a non-empty set
Max(values) == CHOOSE v \in values : \A w \in values : w <= v

\* min(values), the values a non-empty set
Min(values) == CHOOSE v \in values : \A w \in values : v <= w

\* A variant of from_responses that counts every status below 300 a success.
from_responses_Below300(resps) ==
  LET total_sent == Len(resps)
      successful ==
        Cardinality({k \in 1..Len(resps) : resps[k].status_code < 300})
      timed == {k \in 1..Len(resps) : resps[k].response_time > 0}
      response_times == {resps[k].response_time : k \in timed}
  IN [total_sent |-> total_sent, successful |-> successful,
      failed |-> total_sent - successful,
      avg_response_time |->
        [sum |-> Sum([k \in timed |-> resps[k].response_time], timed),
         count |-> Cardinality(timed)],
      max_response_time |->
        IF timed # {} THEN Max(response_times) ELSE 0,
      min_response_time |->
        IF timed # {} THEN Min(response_times) ELSE 0,
      success_rate |-> [num |-> successful * 100, den |-> total_sent]]

\* WebhookDeliveryStats.from_responses; a quotient is kept as its numerator
\* and denominator (count 0 and den 0 stand for the value 0 of the code)
from_responses(resps) ==
  LET total_sent == Len(resps)
      successful ==
        Cardinality({k \in 1..Len(resps) : IsSuccess(resps[k].status_code)})
      timed == {k \in 1..Len(resps) : resps[k].response_time > 0}
      response_times == {resps[k].response_time : k \in timed}
  IN [total_sent |-> total_sent, successful |-> successful,
      failed |-> total_sent - successful,
      avg_response_time |->
        [sum |-> Sum([k \in timed |-> resps[k].response_time], timed),
         count |-> Cardinality(timed)],
      max_response_time |->
        IF timed # {} THEN Max(response_times) ELSE 0,
      min_response_time |->
        IF timed # {} THEN Min(response_times) ELSE 0,
      success_rate |-> [num |-> successful * 100, den |-> total_sent]]

\* r.status_code < 200 or r.status_code >= 300
IsFailure(r) == r.status_code < 200 \/ r.status_code >= 300

\* one entry of the report's failures list
failure_entry(r) ==
  [record_id |-> r.record_id, status_code |-> r.status_code,
   error |-> r.error,
   response_text |-> IF r.response_text # "" THEN r.response_text ELSE None,
   response_time |-> r.response_time]

\* generate_delivery_report(responses)
\* round(num / den, 2), in hundredths: the nearest hundredth, a tie going
\* to the even one
round_hundredths(num, den) ==
  LET q == (100 * num) \div den
      r == (100 * num) % den
  IN IF 2 * r > den \/ (2 * r = den /\ q % 2 = 1) THEN q + 1 ELSE q

\* A variant of requests_per_second that cuts the quotient off after two
\* decimals.
requests_per_second_Truncated(total_sent, max_response_time) ==
  [hundredths |->
     (100 * total_sent)
       \div (IF max_response_time > 1 THEN max_response_time ELSE 1)]

\* round(stats.total_sent / max(stats.max_response_time, 1), 2)
requests_per_second(total_sent, max_response_time) ==
  [hundredths |->
     round_hundredths(total_sent,
        IF max_response_time > 1 THEN max_response_time ELSE 1)]

generate_delivery_report(resps) ==
  LET stats == from_responses(resps)
      status_groups ==
        [status \in {resps[k].status_code : k \in 1..Len(resps)} |->
           SelectSeq(resps, LAMBDA r : r.status_code = status)]
      failures == SelectSeq(resps, IsFailure)
  IN [summary |->
        [total_requests |-> stats.total_sent,
         successful_requests |-> stats.successful,
         failed_requests |-> stats.failed,
         success_rate_percent |-> stats.success_rate,
         avg_response_time_seconds |-> stats.avg_response_time,
         max_response_time_seconds |-> stats.max_response_time,
         min_response_time_seconds |-> stats.min_response_time],
      status_code_breakdown |->
        [key \in {ToString(status) : status \in DOMAIN status_groups} |->
           Len(status_groups[CHOOSE status \in DOMAIN status_groups :
                               ToString(status) = key])],
      failures |->
        [i \in 1..Len(failures) |-> failure_entry(failures[i])],
      performance_metrics |->
        [requests_per_second |->
           requests_per_second(stats.total_sent, stats.max_response_time),
         fastest_response |-> stats.min_response_time,
         slowest_response |-> stats.max_response_time],
      generated_at |-> now]

ReportStart ==
  /\ \/ \E list \in ResponseLists :
          report_responses =
            [k \in DOMAIN list |->
               DeliveredResponse(k, list[k][1], list[k][2])]
     \/ report_responses = Scenario3Responses
  /\ report = Nothing
  /\ report_pc = "ready"

GenerateReport ==
  /\ report_pc = "ready"
  /\ report' = generate_delivery_report(report_responses)
  /\ report_pc' = "done"
  /\ UNCHANGED <<report_responses, now, bulk_vars, retry_vars, poll_vars,
                 dist_vars, gen_vars, schema_vars, api_vars, ping_vars,
                 more_vars>>

InitReport ==
  /\ now = 0 /\ ReportStart
  /\ BulkIdle /\ RetryIdle /\ PollIdle /\ DistIdle /\ GenIdle /\ SchemaIdle
  /\ ApiIdle /\ PingIdle /\ MoreIdle

NextReport == GenerateReport

SpecReport == InitReport /\ [][NextReport]_vars

(***************************************************************************)
(* run_integration_health_check and its three checks                       *)
(* (scripts/integration_health_check.py)                                   *)
(***************************************************************************)
\* The configurations of the model: the webhook URL, the number of test
\* users, and the attribute the object lacks (a check that reads it raises).
HealthConfigs ==
  [webhook_url : {GoodUrl, NoSchemeUrl}, users : 0..MaxUsers,
   lacks : {"nothing", "webhook_url", "test_users"}]

\* dict[key] = value
Put(dict, key, value) ==
  [k \in DOMAIN dict \cup {key} |-> IF k = key THEN value ELSE dict[k]]

\* check_webhook_health: the health_status built from the endpoint check
check_webhook_health(config, health_results) ==
  [webhook_url |-> config.webhook_url,
   status |-> IF health_results.endpoint_reachable
                THEN "healthy" ELSE "unhealthy",
   response_time |-> health_results.response_time,
   details |-> health_results]

\* How the probe of one user can end: prospects returned, a BonzoAPIError,
\* another exception.
ProbeOutcomes ==
  {[kind |-> "ok", count |-> 2, text |-> ""],
   [kind |-> "BonzoAPIError", count |-> 0,
    text |-> "API request failed with status 401"],
   [kind |-> "Exception", count |-> 0, text |-> "'id'"]}

\* user_status after the probe of the user with the given index
user_status(i, probe) ==
  [user_id |-> TestUser(i).user_id, email |-> TestUser(i).email,
   accessible |-> (probe.kind = "ok"),
   error |-> CASE probe.kind = "ok" -> None
               [] probe.kind = "BonzoAPIError" -> probe.text
               [] OTHER -> "Unexpected error: " \o probe.text,
   prospect_count |-> probe.count]

\* A variant of api_status_of in which one accessible user is enough.
api_status_of_AnyUser(accessible_users, total_users) ==
  IF accessible_users > 0 \/ total_users = 0 THEN "healthy" ELSE "unhealthy"

\* 'healthy' if accessible_users == len(config.test_users)
\*   else 'partial' if accessible_users > 0 else 'unhealthy'
api_status_of(accessible_users, total_users) ==
  IF accessible_users = total_users THEN "healthy"
  ELSE IF accessible_users > 0 THEN "partial" ELSE "unhealthy"

\* check_api_connectivity: probes[u] is how the probe of the u-th user ends
check_api_connectivity(config, probes) ==
  LET accessible_users ==
        Cardinality({u \in 1..config.users : probes[u].kind = "ok"})
  IN [status |-> api_status_of(accessible_users, config.users),
      users_accessible |-> accessible_users,
      total_users |-> config.users,
      user_details |-> [u \in 1..config.users |-> user_status(u - 1, probes[u])]]

\* How the search for one user's recent test prospects can end.
RecentOutcomes ==
  {[kind |-> "ok", count |-> 0], [kind |-> "ok", count |-> 1],
   [kind |-> "Exception", count |-> 0]}

\* check_recent_test_data: finds[u] is how the search for the u-th user ends
check_recent_test_data(config, finds) ==
  [total_test_prospects |->
     Sum([u \in 1..config.users |-> finds[u].count], 1..config.users),
   user_breakdown |->
     [u \in 1..config.users |->
        [user_id |-> TestUser(u - 1).user_id, email |-> TestUser(u - 1).email,
         test_prospects_found |-> finds[u].count,
         error |-> IF finds[u].kind = "ok" THEN None ELSE "timed out"]]]

\* A variant of overall_status_of in which one healthy check is enough.
overall_status_of_EitherHealthy(webhook_ok, api_ok) ==
  IF webhook_ok \/ api_ok THEN "healthy" ELSE "unhealthy"

\* the overall status of lines 217-225
overall_status_of(webhook_ok, api_ok) ==
  IF webhook_ok /\ api_ok THEN "healthy"
  ELSE IF webhook_ok \/ api_ok THEN "partial"
  ELSE "unhealthy"

HealthStart ==
  /\ health_config \in HealthConfigs
  /\ check_test_data \in BOOLEAN
  /\ checks = <<>> /\ overall_status = "unknown" /\ health_error = None
  /\ health_pc = "webhook"

\* webhook_health = check_webhook_health(config)
HealthWebhook ==
  /\ health_pc = "webhook"
  /\ IF health_config.lacks = "webhook_url"
       THEN /\ health_pc' = "except"
            /\ UNCHANGED <<checks, now>>
       ELSE /\ \E outcome \in
                   IF InvalidFormat(health_config.webhook_url) THEN {NotSent}
                   ELSE PingOutcomes(health_config.webhook_url),
                 elapsed \in 0..MaxPingTime :
                 /\ now' = now + (IF outcome = NotSent THEN 0 ELSE elapsed)
                 /\ checks' =
                      Put(checks, "webhook_health",
                          check_webhook_health(health_config,
                             ping_result(outcome,
                                IF outcome = NotSent THEN 0 ELSE elapsed)))
            /\ health_pc' = "api"
  /\ UNCHANGED <<health_config, check_test_data, overall_status,
                 health_error, older_vars, run_vars,
                 fetch_vars, subst_vars, app_vars>>

\* api_health = check_api_connectivity(config)
HealthApi ==
  /\ health_pc = "api"
  /\ IF health_config.lacks = "test_users"
       THEN /\ health_pc' = "except"
            /\ UNCHANGED checks
       ELSE /\ \E probes \in [1..health_config.users -> ProbeOutcomes] :
                 checks' =
                   Put(checks, "api_connectivity",
                       check_api_connectivity(health_config, probes))
            /\ health_pc' = "recent"
  /\ UNCHANGED <<health_config, check_test_data, overall_status,
                 health_error, now, older_vars, run_vars,
                 fetch_vars, subst_vars, app_vars>>

\* if check_test_data: test_data_health = check_recent_test_data(config)
HealthRecent ==
  /\ health_pc = "recent"
  /\ IF check_test_data
       THEN \E finds \in [1..health_config.users -> RecentOutcomes] :
              checks' =
                Put(checks, "recent_test_data",
                    check_recent_test_data(health_config, finds))
       ELSE UNCHANGED checks
  /\ health_pc' = "overall"
  /\ UNCHANGED <<health_config, check_test_data, overall_status,
                 health_error, now, older_vars, run_vars,
                 fetch_vars, subst_vars, app_vars>>

\* Determine overall status
HealthOverall ==
  /\ health_pc = "overall"
  /\ overall_status' =
       overall_status_of(checks["webhook_health"].status = "healthy",
                         checks["api_connectivity"].status = "healthy")
  /\ health_pc' = "returned"
  /\ UNCHANGED <<health_config, check_test_data, checks, health_error, now,
                 older_vars, run_vars,
                 fetch_vars, subst_vars, app_vars>>

\* except Exception as e
HealthExcept ==
  /\ health_pc = "except"
  /\ overall_status' = "error"
  /\ health_error' =
       "object has no attribute '" \o health_config.lacks \o "'"
  /\ health_pc' = "returned"
  /\ UNCHANGED <<health_config, check_test_data, checks, now, older_vars, run_vars,
                 fetch_vars, subst_vars, app_vars>>

InitHealth == now = 0 /\ HealthStart /\ OlderIdle /\ RunIdle /\ FetchIdle
  /\ SubstIdle /\ AppIdle

NextHealth ==
  HealthWebhook \/ HealthApi \/ HealthRecent \/ HealthOverall \/ HealthExcept

SpecHealth == InitHealth /\ [][NextHealth]_vars

(***************************************************************************)
(* generate_test_data (scripts/bulk_test_generator.py): records are        *)
(* generated and validated, exported, and, unless the run is a dry run,    *)
(* the endpoint is pinged and the records are delivered in one batch.      *)
(***************************************************************************)
MaxRunRecords == 2   \* largest config.test_records of a run
MaxRunUsers == 2     \* most test users of a run

\* webhook_settings.get('concurrent_requests', 5): TestConfig has no
\* webhook_settings, so a run always delivers with the default
default_concurrent_requests == 5

RunTemplates == {StandardTemplate, StaticEmailTemplate, NoNameTemplate}

Gate(name, passed) == [gate |-> name, passed |-> passed]

\* A variant of the validation gate that lets a run with errors go on.
ValidationPassed_Always(results) == TRUE

\* if validation_results['validation_errors']: return
ValidationPassed(results) == results.validation_errors = <<>>

\* the WebhookResponse objects as generate_delivery_report reads them
ReportedResponses(resps, response_time) ==
  [k \in DOMAIN resps |->
     [kind |-> "WebhookResponse", record_id |-> resps[k].record_id,
      status_code |-> resps[k].status_code, response_text |-> "",
      response_time |-> response_time, error |-> resps[k].error]]

RunStart ==
  /\ total_records \in 0..MaxRunRecords
  /\ num_users \in 1..MaxRunUsers
  /\ distribution_method \in {"even", "random"}
  /\ payload_template \in RunTemplates
  /\ user_distributions = <<>> /\ dist_pc = "loop"
  /\ records = <<>> /\ record_counter = 0
  /\ user_index = 0 /\ user_i = 0 /\ submitted_records = <<>>
  /\ validation_results = NoValidation
  /\ gen_pc = "distribute"
  /\ config_webhook_url \in {GoodUrl, NoSchemeUrl}
  /\ override_webhook_url = None /\ webhook_url = None
  /\ ping_calls = <<>> /\ ping_results = <<>> /\ ping_pc = "idle"
  /\ dry_run \in BOOLEAN
  /\ run_log = <<>>
  /\ run_pc = "generate"

\* validation_results = factory.validate_test_records(test_records) and the
\* return on validation errors
RunValidate ==
  /\ run_pc = "generate" /\ gen_pc = "returned"
  /\ submitted_records' = records
  /\ validation_results' = validate_test_records(records)
  /\ gen_pc' = "validated"
  /\ run_log' =
       Append(run_log,
              Gate("validate",
                   ValidationPassed(validate_test_records(records))))
  /\ run_pc' = IF ValidationPassed(validate_test_records(records))
                 THEN "export" ELSE "stopped"
  /\ UNCHANGED <<payload_template, records, record_counter, user_index,
                 user_i, dry_run, now, bulk_vars, retry_vars, poll_vars,
                 dist_vars, schema_vars, api_vars, ping_vars, report_vars,
                 health_vars, fetch_vars,
                 subst_vars, app_vars>>

\* generate_test_records raised: generate_test_data catches nothing
RunRaise ==
  /\ run_pc = "generate" /\ gen_pc = "raised"
  /\ run_pc' = "raised"
  /\ UNCHANGED <<dry_run, run_log, now, older_vars, health_vars, fetch_vars,
                 subst_vars, app_vars>>

\* factory.export_test_records(...) and the return of a dry run
RunExport ==
  /\ run_pc = "export"
  /\ run_log' = Append(run_log, Gate("dry_run", ~dry_run))
  /\ run_pc' = IF dry_run THEN "stopped" ELSE "endpoint"
  /\ UNCHANGED <<dry_run, now, older_vars, health_vars, fetch_vars,
                 subst_vars, app_vars>>

\* webhook_validator = WebhookValidator(config) and
\* endpoint_validation = webhook_validator.validate_webhook_endpoint()
RunValidateEndpoint ==
  /\ run_pc = "endpoint"
  /\ webhook_url' = EffectiveUrl(override_webhook_url, config_webhook_url)
  /\ ping_pc' = "ready"
  /\ \E outcome \in
          IF InvalidFormat(config_webhook_url) THEN {NotSent}
          ELSE PingOutcomes(webhook_url'),
        elapsed \in 0..MaxPingTime :
        LET spent == IF outcome = NotSent THEN 0 ELSE elapsed
            posted == IF outcome = NotSent THEN None ELSE webhook_url'
            endpoint_validation == ping_result(outcome, spent)
        IN /\ now' = now + spent
           /\ ping_calls' =
                Append(ping_calls, [posted |-> posted, outcome |-> outcome])
           /\ ping_results' = Append(ping_results, endpoint_validation)
           /\ run_log' =
                Append(run_log,
                       Gate("endpoint",
                            endpoint_validation.endpoint_reachable))
           /\ run_pc' = IF endpoint_validation.endpoint_reachable
                          THEN "send" ELSE "stopped"
  /\ UNCHANGED <<config_webhook_url, override_webhook_url, dry_run,
                 bulk_vars, retry_vars, poll_vars, dist_vars, gen_vars,
                 schema_vars, api_vars, report_vars, health_vars, fetch_vars,
                 subst_vars, app_vars>>

\* webhook_validator.send_bulk_webhooks_sync(test_records): the batch starts
RunSendBulk ==
  /\ run_pc = "send"
  /\ test_records' = records
  /\ concurrent_requests' = default_concurrent_requests
  /\ semaphore' = default_concurrent_requests
  /\ task' = [i \in 1..Len(records) |-> "pending"]
  /\ responses' = [i \in 1..Len(records) |-> NoResult]
  /\ posts' = [i \in 1..Len(records) |-> 0]
  /\ post_outcome' = [i \in 1..Len(records) |-> NoOutcome]
  /\ webhook_responses' = <<>>
  /\ bulk_pc' = "gather"
  /\ run_pc' = "sending"
  /\ UNCHANGED <<dry_run, run_log, now, retry_vars, poll_vars, dist_vars,
                 gen_vars, schema_vars, api_vars, ping_vars, report_vars,
                 health_vars, fetch_vars,
                 subst_vars, app_vars>>

\* webhook_validator.generate_delivery_report(webhook_responses, ...); an
\* entry that is not a WebhookResponse has no status_code and the report
\* raises AttributeError
RunReport ==
  /\ run_pc = "sending" /\ bulk_pc = "returned"
  /\ IF \A k \in DOMAIN webhook_responses :
          IsWebhookResponse(webhook_responses[k])
       THEN /\ \E response_time \in ResponseTimes :
                 /\ report_responses' =
                      ReportedResponses(webhook_responses, response_time)
                 /\ report' =
                      generate_delivery_report(
                        ReportedResponses(webhook_responses, response_time))
            /\ report_pc' = "done"
            /\ run_pc' = "done"
       ELSE /\ run_pc' = "raised"
            /\ UNCHANGED report_vars
  /\ UNCHANGED <<dry_run, run_log, now, bulk_vars, retry_vars, poll_vars,
                 dist_vars, gen_vars, schema_vars, api_vars, ping_vars,
                 health_vars, fetch_vars,
                 subst_vars, app_vars>>

InitRun ==
  /\ now = 0 /\ RunStart
  /\ BulkIdle /\ RetryIdle /\ PollIdle /\ SchemaIdle /\ ApiIdle
  /\ ReportIdle /\ HealthIdle /\ FetchIdle /\ SubstIdle /\ AppIdle

NextRun ==
  \/ DistAssign \/ DistReturn \/ DistUnknown
  \/ GenBegin \/ GenRaise \/ GenRecord \/ GenNextUser \/ GenReturn
  \/ RunValidate \/ RunRaise \/ RunExport \/ RunValidateEndpoint
  \/ RunSendBulk
  \/ \E i \in Records : Acquire(i)
  \/ \E i \in Records : Complete(i)
  \/ \E i \in Records : FaultInFlight(i)
  \/ GatherReturn
  \/ RunReport

SpecRun == InitRun /\ [][NextRun]_vars

(***************************************************************************)
(* BonzoAPIClient.get_user_prospects (scripts/bonzo_api_client.py)         *)
(***************************************************************************)
MaxRemote == 3       \* most records in one response

\* the keys read with prospect_data[...], in the order they are read
RequiredFields ==
  <<"id", "business_entity_id", "first_name", "last_name", "full_name",
    "source", "assigned_to", "assigned_user", "created_at", "updated_at",
    "business">>

\* the keys read with prospect_data.get(...)
OptionalFields == {"email", "phone"}

Range(seq) == {seq[k] : k \in DOMAIN seq}

AllFields == Range(RequiredFields) \cup OptionalFields

\* The key sets of the JSON objects of the model: complete, lacking one or
\* both optional keys, lacking the first or the last required key, lacking a
\* required and an optional key.
RemoteKeySets ==
  {AllFields, AllFields \ {"email"}, AllFields \ OptionalFields,
   AllFields \ {"id"}, AllFields \ {"business"},
   AllFields \ {"first_name", "phone"}}

\* One element of response['data']: a JSON object with its keys, or a JSON
\* value that is not an object. tag tells the elements of a response apart.
RemoteObject(keys, tag) == [kind |-> "object", keys |-> keys, tag |-> tag]
RemoteValue(kind, tag) == [kind |-> kind, keys |-> {}, tag |-> tag]

RemoteRecords(tag) ==
  {RemoteObject(keys, tag) : keys \in RemoteKeySets}
    \cup {RemoteValue("null", tag), RemoteValue("string", tag)}

\* the responses of the model: lists of up to MaxRemote elements
RemoteLists ==
  UNION {{list \in [1..n -> UNION {RemoteRecords(t) : t \in 1..n}] :
            \A k \in 1..n : list[k].tag = k} : n \in 0..MaxRemote}

\* the first exception the ProspectData(...) expression raises for an
\* element, None if it raises none: indexing a value that is not an object
\* raises TypeError, indexing an object by a key it lacks raises KeyError
construct_error(remote_record) ==
  IF remote_record.kind # "object" THEN "TypeError"
  ELSE IF \E k \in DOMAIN RequiredFields :
            RequiredFields[k] \notin remote_record.keys
    THEN "KeyError"
  ELSE None

\* except KeyError: ... continue
skips_record(error) == error = "KeyError"

\* ProspectData(id=prospect_data['id'], ..., email=prospect_data.get('email'),
\* phone=prospect_data.get('phone'), ...)
ProspectData(remote_record) ==
  [tag |-> remote_record.tag,
   has_email |-> "email" \in remote_record.keys,
   has_phone |-> "phone" \in remote_record.keys]

\* response.get('data', [])
response_data(response) ==
  IF response.has_data THEN response.data ELSE <<>>

FetchStart ==
  /\ \/ fetch_response = [kind |-> "BonzoAPIError", has_data |-> FALSE,
                          data |-> <<>>]
     \/ fetch_response = [kind |-> "dict", has_data |-> FALSE, data |-> <<>>]
     \/ \E list \in RemoteLists :
          fetch_response = [kind |-> "dict", has_data |-> TRUE, data |-> list]
  /\ fetch_index = 0 /\ fetch_prospects = <<>>
  /\ fetch_error = None /\ fetch_pc = "request"

\* response = self._make_request('GET', '/api/v3/prospects', ...)
FetchRequest ==
  /\ fetch_pc = "request"
  /\ IF fetch_response.kind = "BonzoAPIError"
       THEN fetch_pc' = "raised" /\ fetch_error' = "BonzoAPIError"
       ELSE fetch_pc' = "loop" /\ fetch_error' = None
  /\ UNCHANGED <<fetch_response, fetch_index, fetch_prospects, now,
                 older_vars, health_vars, run_vars,
                 subst_vars, app_vars>>

\* One iteration of for prospect_data in response.get('data', [])
FetchRecord ==
  /\ fetch_pc = "loop"
  /\ fetch_index < Len(response_data(fetch_response))
  /\ LET remote_record == response_data(fetch_response)[fetch_index + 1]
         error == construct_error(remote_record)
     IN IF error = None
          THEN /\ fetch_prospects' =
                    Append(fetch_prospects, ProspectData(remote_record))
               /\ fetch_index' = fetch_index + 1
               /\ UNCHANGED <<fetch_error, fetch_pc>>
        ELSE IF skips_record(error)
          THEN /\ fetch_index' = fetch_index + 1
               /\ UNCHANGED <<fetch_prospects, fetch_error, fetch_pc>>
        ELSE /\ fetch_error' = error
             /\ fetch_pc' = "raised"
             /\ UNCHANGED <<fetch_prospects, fetch_index>>
  /\ UNCHANGED <<fetch_response, now, older_vars, health_vars, run_vars,
                 subst_vars, app_vars>>

\* return prospects
FetchReturn ==
  /\ fetch_pc = "loop"
  /\ fetch_index = Len(response_data(fetch_response))
  /\ fetch_pc' = "returned"
  /\ UNCHANGED <<fetch_response, fetch_index, fetch_prospects, fetch_error,
                 now, older_vars, health_vars, run_vars,
                 subst_vars, app_vars>>

InitFetch ==
  now = 0 /\ FetchStart /\ OlderIdle /\ HealthIdle /\ RunIdle /\ SubstIdle
  /\ AppIdle

NextFetch == FetchRequest \/ FetchRecord \/ FetchReturn

SpecFetch == InitFetch /\ [][NextFetch]_vars

(***************************************************************************)
(* TestDataFactory._replace_template_variables on the characters of the    *)
(* payload: json.dumps, str.replace for each placeholder, json.loads.      *)
(* A string is the sequence of its symbols: a symbol is one character that *)
(* matters to JSON or to a placeholder, or a run of other characters.      *)
(***************************************************************************)
MaxTemplateLen == 4  \* most symbols in a template value

LBrace == "{"
RBrace == "}"
Quote == "quotation mark"
Backslash == "backslash"
Newline == "line feed"
LetterN == "n"

\* the placeholder keys, in the order their str.replace calls are made: the
\* user keys, the keys of test_data in insertion order, then record_id
PlaceholderKeys ==
  <<"user.email", "user.id", "user.user_id", "team.id",
    "first_name", "last_name", "email", "phone", "address", "city", "state",
    "zip", "alert_date", "created_at", "record_id", "record_id">>

RecognisedKeys == {PlaceholderKeys[k] : k \in DOMAIN PlaceholderKeys}

\* f'{{{key}}}'
Placeholder(key) == <<LBrace, key, RBrace>>

RECURSIVE str_replace(_, _, _)
\* str.replace(old, new): every non-overlapping occurrence, left to right
str_replace(str, old, new) ==
  IF Len(str) < Len(old) THEN str
  ELSE IF SubSeq(str, 1, Len(old)) = old
    THEN new \o str_replace(SubSeq(str, Len(old) + 1, Len(str)), old, new)
  ELSE <<Head(str)>> \o str_replace(Tail(str), old, new)

RECURSIVE json_dumps(_)
\* json.dumps of a string, without its enclosing quotation marks
json_dumps(str) ==
  IF str = <<>> THEN <<>>
  ELSE (CASE Head(str) = Quote     -> <<Backslash, Quote>>
          [] Head(str) = Backslash -> <<Backslash, Backslash>>
          [] Head(str) = Newline   -> <<Backslash, LetterN>>
          [] OTHER                 -> <<Head(str)>>)
         \o json_dumps(Tail(str))

JSONDecodeError == [kind |-> "JSONDecodeError", value |-> <<>>]
Decoded(str) == [kind |-> "str", value |-> str]

RECURSIVE json_loads(_)
\* json.loads of the text between the quotation marks of a string: a raw
\* quotation mark ends the string early, a raw control character and an
\* escape that is not one are refused
json_loads(str) ==
  IF str = <<>> THEN Decoded(<<>>)
  ELSE IF Head(str) \in {Quote, Newline} THEN JSONDecodeError
  ELSE IF Head(str) = Backslash
    THEN IF Len(str) < 2 \/ str[2] \notin {Quote, Backslash, LetterN}
           THEN JSONDecodeError
           ELSE LET rest == json_loads(SubSeq(str, 3, Len(str)))
                    char == IF str[2] = LetterN THEN Newline ELSE str[2]
                IN IF rest.kind = "str"
                     THEN Decoded(<<char>> \o rest.value) ELSE rest
  ELSE LET rest == json_loads(Tail(str))
       IN IF rest.kind = "str"
            THEN Decoded(<<Head(str)>> \o rest.value) ELSE rest

RECURSIVE replace_all(_, _, _)
\* the str.replace calls for the placeholders from the k-th on
replace_all(payload_str, values, k) ==
  IF k > Len(PlaceholderKeys) THEN payload_str
  ELSE replace_all(str_replace(payload_str, Placeholder(PlaceholderKeys[k]),
                               values[PlaceholderKeys[k]]),
                   values, k + 1)

\* _replace_template_variables for one string value of the payload
replace_string_value(template_value, values) ==
  json_loads(replace_all(json_dumps(template_value), values, 1))

\* the symbols of the template values of the model
TemplateSymbols ==
  {LBrace, RBrace, "email", "user.email", "zip", "lead", Newline}

TemplateValues ==
  UNION {[1..n -> TemplateSymbols] : n \in 0..MaxTemplateLen}

PlainText(key) == <<"value of " \o key>>

\* the substitution values of the model: every key has a plain value, and
\* zip (a setting) and user.email (a configured address) vary
ZipValues ==
  {PlainText("zip"), <<>>, <<"12", Newline, "345">>, <<"12", Quote>>,
   <<Backslash, "12">>, <<LBrace, "email", RBrace>>}
UserEmailValues == {PlainText("user.email"), <<"lo@x.test", Newline>>}

ValueMaps ==
  {[key \in RecognisedKeys |->
      CASE key = "zip"        -> zip
        [] key = "user.email" -> user_email
        [] OTHER              -> PlainText(key)] :
     zip \in ZipValues, user_email \in UserEmailValues}

SubstStart ==
  /\ subst_template \in TemplateValues
  /\ subst_values \in ValueMaps
  /\ subst_result = Nothing
  /\ subst_pc = "ready"

Substitute ==
  /\ subst_pc = "ready"
  /\ subst_result' = replace_string_value(subst_template, subst_values)
  /\ subst_pc' = "done"
  /\ UNCHANGED <<subst_template, subst_values, now, older_vars, health_vars,
                 run_vars, fetch_vars, app_vars>>

InitSubst ==
  now = 0 /\ SubstStart /\ OlderIdle /\ HealthIdle /\ RunIdle /\ FetchIdle
  /\ AppIdle

NextSubst == Substitute

SpecSubst == InitSubst /\ [][NextSubst]_vars

(***************************************************************************)
(* AppStateManager (app/state/app_state.py) and the handlers of the main   *)
(* window that drive it (app/ui/main_window.py)                            *)
(***************************************************************************)
AppOrgs == {"org1", "org2"}

\* org_webhooks.json at start: two organizations, the first with two
\* webhooks and the second with one; a webhook is named by a number, and
\* distinct webhooks have distinct names.
InitialOrganizations ==
  [org_id \in AppOrgs |-> IF org_id = "org1" THEN <<1, 2>> ELSE <<3>>]

\* OrganizationProspects(): next_prospect_index = 1, prospects = []
OrganizationProspects == [next_prospect_index |-> 1, prospects |-> <<>>]

\* GeneratedProspectsData.get_org_prospects
get_org_prospects(prospects_data, org_id) ==
  Get(prospects_data, org_id, OrganizationProspects)

\* the name given to the next webhook added
NewWebhook == 10 + webhooks_added

\* del webhooks[webhook_index], for a 0-based index inside the list
del(webhooks, webhook_index) ==
  [k \in 1..(Len(webhooks) - 1) |->
     IF k <= webhook_index THEN webhooks[k] ELSE webhooks[k + 1]]

\* the state fields a changed selection clears (the prospect, the pending
\* prospect and the payload), primed
SelectionCleared ==
  /\ selected_prospect' = <<>>
  /\ pending_prospect' = <<>>
  /\ generated_payload' = <<>>

\* How the POST of send_payload can end: a response with a status, or a
\* requests.RequestException (status 0 here).
SendOutcomes == {200, 201, 0}

\* A variant of SendSucceeded that takes every 2xx status as a success.
SendSucceeded_Any2xx(status_code) == 200 <= status_code /\ status_code < 300

\* if response.status_code == 200
SendSucceeded(status_code) == status_code = 200

AppStart ==
  /\ org_webhooks_file = InitialOrganizations
  /\ generated_prospects_file = EmptyDict
  /\ selected_organization = <<>> /\ selected_webhook_index = <<>>
  /\ selected_prospect = <<>> /\ pending_prospect = <<>>
  /\ generated_payload = <<>>
  /\ user_selected_webhook = <<>>
  /\ webhooks_added = 0 /\ sends = 0 /\ last_status = <<>>
  /\ app_pc = "running"

app_frame == <<older_vars, health_vars, run_vars, fetch_vars, subst_vars, now>>

\* on_organization_selected -> select_organization(organization), with an
\* organization of the list loaded from the file
AppSelectOrganization(org_id) ==
  /\ app_pc = "running"
  /\ selected_organization' =
       <<[id |-> org_id, webhooks |-> org_webhooks_file[org_id]]>>
  /\ selected_webhook_index' = <<>>
  /\ user_selected_webhook' = <<>>
  /\ SelectionCleared
  /\ UNCHANGED <<org_webhooks_file, generated_prospects_file, webhooks_added,
                 sends, last_status, app_pc, app_frame>>

\* select_webhook(webhook_index)
AppSelectWebhook(webhook_index) ==
  /\ app_pc = "running"
  /\ selected_organization # <<>>
  /\ IF 0 <= webhook_index
          /\ webhook_index < Len(selected_organization[1].webhooks)
       THEN /\ selected_webhook_index' = <<webhook_index>>
            /\ user_selected_webhook' =
                 <<selected_organization[1].webhooks[webhook_index + 1]>>
            /\ SelectionCleared
       ELSE UNCHANGED <<selected_webhook_index, user_selected_webhook,
                        selected_prospect, pending_prospect,
                        generated_payload>>
  /\ UNCHANGED <<org_webhooks_file, generated_prospects_file,
                 selected_organization, webhooks_added, sends, last_status,
                 app_pc, app_frame>>

\* add_webhook(name, url): the webhook is appended to the organization in
\* the file and to the selected organization
AppAddWebhook ==
  /\ app_pc = "running" /\ webhooks_added < MaxAdded
  /\ selected_organization # <<>>
  /\ LET org == selected_organization[1]
     IN /\ org_webhooks_file' =
             [org_webhooks_file EXCEPT ![org.id] = Append(@, NewWebhook)]
        /\ selected_organization' =
             <<[org EXCEPT !.webhooks = Append(@, NewWebhook)]>>
  /\ webhooks_added' = webhooks_added + 1
  /\ UNCHANGED <<generated_prospects_file, selected_webhook_index,
                 selected_prospect, pending_prospect, generated_payload,
                 user_selected_webhook, sends, last_status, app_pc,
                 app_frame>>

\* delete_webhook(webhook_index)
AppDeleteWebhook(webhook_index) ==
  /\ app_pc = "running"
  /\ selected_organization # <<>>
  /\ LET org == selected_organization[1]
     IN /\ 0 <= webhook_index /\ webhook_index < Len(org.webhooks)
        /\ org_webhooks_file' =
             [org_webhooks_file EXCEPT ![org.id] = del(@, webhook_index)]
        /\ selected_organization' =
             <<[org EXCEPT !.webhooks = del(@, webhook_index)]>>
  /\ IF selected_webhook_index = <<webhook_index>>
       THEN /\ selected_webhook_index' = <<>>
            /\ user_selected_webhook' = <<>>
            /\ SelectionCleared
       ELSE UNCHANGED <<selected_webhook_index, user_selected_webhook,
                        selected_prospect, pending_prospect,
                        generated_payload>>
  /\ UNCHANGED <<generated_prospects_file, webhooks_added, sends,
                 last_status, app_pc, app_frame>>

\* AppStateManager.generate_payload(prospect, profile): the payload for the
\* selected webhook, or the exception raised (no webhook selected, an index
\* outside the list, a failure of the payload service), which leaves the
\* payload as it was
payload_after_generate(prospect, service_ok) ==
  IF /\ selected_organization # <<>> /\ selected_webhook_index # <<>>
     /\ selected_webhook_index[1] < Len(selected_organization[1].webhooks)
     /\ service_ok
    THEN <<[prospect |-> prospect,
            webhook |-> selected_organization[1].webhooks[
                          selected_webhook_index[1] + 1]]>>
    ELSE generated_payload

\* BonzoBuddyApp.generate_new_prospect: state_manager.generate_new_prospect()
\* and generate_payload(prospect, profile), errors shown in a dialog
AppGenerateNewProspect ==
  /\ app_pc = "running"
  /\ selected_organization # <<>>
  /\ LET index ==
           get_org_prospects(generated_prospects_file,
                             selected_organization[1].id).next_prospect_index
     IN /\ pending_prospect' = <<index>>
        /\ selected_prospect' = <<>>
        /\ \E service_ok \in BOOLEAN :
             generated_payload' = payload_after_generate(index, service_ok)
  /\ UNCHANGED <<org_webhooks_file, generated_prospects_file,
                 selected_organization, selected_webhook_index,
                 user_selected_webhook, webhooks_added, sends, last_status,
                 app_pc, app_frame>>

\* on_prospect_selected -> select_prospect(prospect), with a prospect of
\* get_existing_prospects(), then use_selected_prospect
AppSelectProspect ==
  /\ app_pc = "running"
  /\ selected_organization # <<>>
  /\ LET saved ==
           get_org_prospects(generated_prospects_file,
                             selected_organization[1].id).prospects
     IN \E k \in 1..Len(saved), service_ok \in BOOLEAN :
          /\ selected_prospect' = <<saved[k]>>
          /\ pending_prospect' = <<>>
          /\ generated_payload' = payload_after_generate(saved[k], service_ok)
  /\ UNCHANGED <<org_webhooks_file, generated_prospects_file,
                 selected_organization, selected_webhook_index,
                 user_selected_webhook, webhooks_added, sends, last_status,
                 app_pc, app_frame>>

\* save_prospect_after_successful_send: the file after the pending prospect
\* was appended for the selected organization
save_prospect_after_successful_send ==
  LET org_id == selected_organization[1].id
      org_prospects == get_org_prospects(generated_prospects_file, org_id)
  IN Put(generated_prospects_file, org_id,
         [next_prospect_index |-> org_prospects.next_prospect_index + 1,
          prospects |-> Append(org_prospects.prospects, pending_prospect[1])])

\* send_payload with a payload and a selected webhook inside the list
AppSend ==
  /\ app_pc = "running" /\ sends < MaxSends
  /\ generated_payload # <<>> /\ selected_webhook_index # <<>>
  /\ selected_webhook_index[1] < Len(selected_organization[1].webhooks)
  /\ \E status_code \in SendOutcomes :
       /\ last_status' = <<status_code>>
       /\ IF SendSucceeded(status_code) /\ pending_prospect # <<>>
            THEN /\ generated_prospects_file' =
                      save_prospect_after_successful_send
                 /\ pending_prospect' = <<>>
            ELSE UNCHANGED <<generated_prospects_file, pending_prospect>>
  /\ sends' = sends + 1
  /\ UNCHANGED <<org_webhooks_file, selected_organization,
                 selected_webhook_index, selected_prospect,
                 generated_payload, user_selected_webhook, webhooks_added,
                 app_pc, app_frame>>

\* send_payload with a selected index outside the list: the subscript at the
\* head of the handler raises IndexError, which nothing in it catches
AppSendIndexError ==
  /\ app_pc = "running"
  /\ generated_payload # <<>> /\ selected_webhook_index # <<>>
  /\ selected_webhook_index[1] >= Len(selected_organization[1].webhooks)
  /\ app_pc' = "raised"
  /\ UNCHANGED <<org_webhooks_file, generated_prospects_file,
                 selected_organization, selected_webhook_index,
                 selected_prospect, pending_prospect, generated_payload,
                 user_selected_webhook, webhooks_added, sends, last_status,
                 app_frame>>

InitApp ==
  now = 0 /\ AppStart /\ OlderIdle /\ HealthIdle /\ RunIdle /\ FetchIdle
  /\ SubstIdle

NextApp ==
  \/ \E org_id \in AppOrgs : AppSelectOrganization(org_id)
  \/ \E webhook_index \in -1..MaxWebhooks : AppSelectWebhook(webhook_index)
  \/ AppAddWebhook
  \/ \E webhook_index \in -1..MaxWebhooks : AppDeleteWebhook(webhook_index)
  \/ AppGenerateNewProspect
  \/ AppSelectProspect
  \/ AppSend
  \/ AppSendIndexError

SpecApp == InitApp /\ [][NextApp]_vars

(***************************************************************************)
(* A run whose records are then sent one at a time: after a dry run the    *)
(* caller hands a generated record to send_webhook_with_retry.             *)
(***************************************************************************)
\* send_webhook_with_retry(record.record_id, record.payload) is called
RetryBegin ==
  /\ run_pc = "stopped" /\ dry_run /\ gen_pc = "validated"
  /\ records # <<>> /\ retry_pc = "idle"
  /\ retry_attempts' \in 1..MaxRetry
  /\ attempt' = 0
  /\ last_response' = NoResponse
  /\ retry_result' = NoResponse
  /\ retry_log' = <<>>
  /\ retry_pc' = "loop"
  /\ UNCHANGED <<now, bulk_vars, poll_vars, dist_vars, ext_vars>>

InitFrame == InitRun

NextFrame == NextRun \/ RetryBegin \/ RetryAttempt \/ RetryExhausted

SpecFrame == InitFrame /\ [][NextFrame]_vars

Pending == {i \in Records : task[i] = "pending"}
Finished == {i \in Records : task[i] = "finished"}

\* C1: at most concurrent_requests deliveries have issued their POST and
\* not yet finished, in every reachable state of a batch.
C1_InFlightAtMostC ==
  bulk_pc = "gather" => Cardinality(InFlight) <= concurrent_requests

\* C1 witness: the cap is reached while another record still waits.
C1_Witness ==
  /\ bulk_pc = "gather"
  /\ Cardinality(InFlight) = concurrent_requests
  /\ Pending # {}

\* C2: the batch returns one response per submitted record, and the entry
\* at position i is a response carrying the record_id of the i-th record.
C2_OneResponsePerRecord ==
  bulk_pc = "returned" =>
    /\ Len(webhook_responses) = Len(test_records)
    /\ \A i \in Records :
         /\ IsWebhookResponse(webhook_responses[i])
         /\ webhook_responses[i].record_id = test_records[i].record_id

\* C3: a timeout, connection error or non-2xx status of one record's POST
\* takes nothing from the others: the slot is given back whatever the
\* outcome, and at the return every record whose POST ended, failed or not,
\* was POSTed and has its own response: status 0 with an error string for a
\* transport failure, the HTTP status with no error otherwise.
C3_FailureIsolated ==
  /\ bulk_pc = "gather" =>
       semaphore = concurrent_requests - Cardinality(InFlight)
  /\ bulk_pc = "returned" =>
       \A i \in Records :
         post_outcome[i] # NoOutcome =>
           /\ posts[i] = 1
           /\ IsWebhookResponse(webhook_responses[i])
           /\ webhook_responses[i].record_id = test_records[i].record_id
           /\ post_outcome[i].kind = "status" =>
                /\ webhook_responses[i].status_code = post_outcome[i].status
                /\ webhook_responses[i].error = None
           /\ post_outcome[i].kind # "status" =>
                /\ webhook_responses[i].status_code = 0
                /\ webhook_responses[i].error \notin {None, ""}

\* C3 witness: a record timed out, and a sibling that completed after it was
\* answered 2xx; both are in the returned list.
C3_Witness ==
  /\ bulk_pc = "returned"
  /\ \E i, j \in Records :
       /\ post_outcome[i].kind = "Timeout"
       /\ post_outcome[j].kind = "status" /\ IsSuccess(post_outcome[j].status)
       /\ webhook_responses[i].timestamp < webhook_responses[j].timestamp
       /\ webhook_responses[j].status_code = post_outcome[j].status

\* C4: every entry of the returned list is a well-formed WebhookResponse;
\* the entry of a task that ended with a fault send_webhook_async did not
\* convert has the record's record_id, status_code 0 and a non-empty error.
C4_FaultsConverted ==
  bulk_pc = "returned" =>
    \A i \in Records :
      /\ IsWebhookResponse(webhook_responses[i])
      /\ webhook_responses[i].record_id = test_records[i].record_id
      /\ responses[i] \in TaskFaults =>
           /\ webhook_responses[i].status_code = 0
           /\ webhook_responses[i].error \notin {None, ""}

\* C5: whenever fewer than concurrent_requests deliveries are in flight and
\* a record has not issued its request, some waiting delivery can take the
\* gate at once, whatever the deliveries in flight do.
C5_WorkConserving ==
  (bulk_pc = "gather" /\ Pending # {}
     /\ Cardinality(InFlight) < concurrent_requests)
    => ENABLED (\E i \in Records : Acquire(i))

\* C5 witness: a slot was freed by a finished delivery while another
\* delivery is still in flight, and a waiting record can take it.
C5_Witness ==
  /\ bulk_pc = "gather"
  /\ Finished # {} /\ InFlight # {} /\ Pending # {}
  /\ Cardinality(InFlight) < concurrent_requests
  /\ ENABLED (\E i \in Records : Acquire(i))

\* C6: at most retry_attempts attempts are made, and the first attempt that
\* gets a 2xx status ends the call: it is the last event of the log (no
\* attempt and no sleep after it) and its response is the value returned.
C6_StopsAtFirst2xx ==
  retry_pc # "idle" =>
    /\ Len(RetryPosts) <= retry_attempts
    /\ \A k \in 1..Len(retry_log) :
         (retry_log[k].ev = "post" /\ retry_log[k].kind = "status"
            /\ 200 <= retry_log[k].status /\ retry_log[k].status <= 299) =>
           /\ k = Len(retry_log)
           /\ retry_pc = "returned"
           /\ retry_result =
                WebhookResponse(RetryRecordId, retry_log[k].status, None,
                                retry_log[k].t)

\* C6 witness: with 3 attempts allowed the second attempt got a 2xx and the
\* call returned, leaving the third attempt unused.
C6_Witness ==
  /\ retry_pc = "returned" /\ retry_attempts = 3
  /\ Len(RetryPosts) = 2
  /\ RetryPosts[1].status = 503
  /\ RetryPosts[2].status = 299
  /\ retry_result.status_code = 299

\* C7: when no attempt got a 2xx, the call made exactly retry_attempts
\* attempts and returned the response of the last one: its status code, or
\* status 0 with an error string for a transport failure.
C7_LastAttemptWins ==
  (retry_pc = "returned"
     /\ \A k \in 1..Len(RetryPosts) :
          ~(RetryPosts[k].kind = "status" /\ 200 <= RetryPosts[k].status
              /\ RetryPosts[k].status <= 299)) =>
    /\ Len(RetryPosts) = retry_attempts
    /\ retry_attempts >= 1 =>
         LET last == RetryPosts[Len(RetryPosts)]
         IN /\ IsWebhookResponse(retry_result)
            /\ retry_result.record_id = RetryRecordId
            /\ retry_result.timestamp = last.t
            /\ last.kind = "status" =>
                 /\ retry_result.status_code = last.status
                 /\ retry_result.error = None
            /\ last.kind # "status" =>
                 /\ retry_result.status_code = 0
                 /\ retry_result.error \notin {None, ""}

\* C7 witness: retry_attempts = 3 against an endpoint always answering 503:
\* exactly 3 attempts, and the third attempt's 503 response is returned.
C7_Witness ==
  /\ retry_pc = "returned" /\ retry_attempts = 3
  /\ Len(RetryPosts) = 3
  /\ \A k \in 1..3 : RetryPosts[k].kind = "status" /\ RetryPosts[k].status = 503
  /\ retry_result.status_code = 503
  /\ retry_result.timestamp = RetryPosts[3].t

\* C8: for every timeout and interval, when the deadline elapses without
\* the found count reaching expected_count the call fails with a
\* TimeoutError, and no other error kind, carrying the count of the last poll.
C8_TimeoutCarriesLastCount ==
  (poll_pc = "raised" /\ poll_error.kind # "BonzoAPIError") =>
    /\ poll_error.kind = "TimeoutError"
    /\ Len(PollFetches) >= 1
    /\ poll_error.found = PollFetches[Len(PollFetches)].found

\* C9: the first poll that finds at least expected_count prospects ends the
\* call: it is the last event of the log (no fetch and no sleep after it)
\* and the list it found is the value returned; the call returns in no
\* other way.
C9_ReturnsAtFirstEnough ==
  /\ \A k \in 1..Len(poll_log) :
       (poll_log[k].ev = "fetch" /\ poll_log[k].found >= expected_count) =>
         /\ k = Len(poll_log)
         /\ poll_pc = "returned"
         /\ poll_result = ProspectList(poll_log[k].found)
  /\ poll_pc = "returned" =>
       /\ poll_log # <<>>
       /\ poll_log[Len(poll_log)].ev = "fetch"
       /\ Len(poll_result) >= expected_count

\* C9 witness: a first poll fell short, the call slept, and the second poll
\* found more than expected_count: its list is returned.
C9_Witness ==
  /\ poll_pc = "returned"
  /\ Len(PollFetches) = 2
  /\ PollFetches[1].found < expected_count
  /\ PollFetches[2].found > expected_count
  /\ Len(poll_result) = PollFetches[2].found

RECURSIVE SumOfCounts(_)
SumOfCounts(counts) ==
  IF counts = <<>> THEN 0 ELSE Head(counts) + SumOfCounts(Tail(counts))

\* floor(total / n) as the quotient q with q * n <= total < (q + 1) * n
FloorQuotient(total, n) ==
  CHOOSE q \in 0..total : q * n <= total /\ total < (q + 1) * n

\* C10: the even distribution of total >= 0 records over N >= 1 users gives
\* user i (0-based, list order) floor(total/N) records plus one more iff
\* i < total mod N; the counts sum to total and any two differ by at most 1.
C10_EvenDistribution ==
  (dist_pc = "returned" /\ distribution_method = "even") =>
    LET q == FloorQuotient(total_records, num_users)
        r == total_records - q * num_users
    IN /\ Len(user_distributions) = num_users
       /\ \A i \in 0..(num_users - 1) :
            CountOf(i) = IF i < r THEN q + 1 ELSE q
       /\ SumOfCounts(user_distributions) = total_records
       /\ \A i, j \in 0..(num_users - 1) :
            CountOf(i) - CountOf(j) <= 1

\* C10 witness: 10 records over 3 users, even: the counts are [4, 3, 3].
C10_Witness ==
  /\ dist_pc = "returned" /\ distribution_method = "even"
  /\ total_records = 10 /\ num_users = 3
  /\ user_distributions = <<4, 3, 3>>

(***************************************************************************)
(* Record generation and validation.                                       *)
(***************************************************************************)
Generated == gen_pc \in {"returned", "validated"}

RecordIdsOf(recs) == {recs[k].record_id : k \in 1..Len(recs)}

EmailsOf(recs) == {Get(recs[k].payload, "email", "") : k \in 1..Len(recs)}

\* C11: within one run of generate_test_records the record_ids of the
\* records generated so far are pairwise distinct, for every requested count
\* (a count above 999 included) and every user list.
C11_RecordIdsDistinct ==
  Cardinality(RecordIdsOf(records)) = Len(records)

\* a returned run of more than 999 records over two users, whose last
\* record_id has four digits
C11_Witness ==
  /\ gen_pc = "returned" /\ Len(records) > 999 /\ num_users = 2
  /\ records[1001].record_id = "run_1001"

\* The placeholders whose replacement differs from record to record.
PerRecordPlaceholders == {"{email}", "{first_name}", "{record_id}"}

\* the template's email value contains a per-record placeholder
EmailVariesPerRecord ==
  /\ "email" \in DOMAIN payload_template
  /\ \E p \in 1..Len(payload_template["email"]) :
       payload_template["email"][p] \in PerRecordPlaceholders

EmailsDistinctAndReported ==
  /\ Cardinality(EmailsOf(records)) = Len(records)
  /\ (gen_pc = "validated" /\ submitted_records = records)
       => validation_results.emails_unique

\* C12 as stated: for any record set produced by generate_test_records, from
\* any payload template, the email values of the payloads are pairwise
\* distinct and validate_test_records reports emails_unique = true.
C12_EmailsDistinctAnyTemplate == Generated => EmailsDistinctAndReported

\* C12: for a record set produced from a template whose email value contains
\* a per-record placeholder, the email values of the payloads are pairwise
\* distinct and validate_test_records reports emails_unique = true; from a
\* template with no email key, two or more records are reported with
\* emails_unique = false.
C12_EmailsDistinctPerRecordEmail ==
  Generated =>
    /\ EmailVariesPerRecord => EmailsDistinctAndReported
    /\ ( /\ "email" \notin DOMAIN payload_template
         /\ Len(records) >= 2
         /\ gen_pc = "validated" /\ submitted_records = records )
         => ~validation_results.emails_unique

\* three records over two users from a template with a per-record email,
\* validated and reported unique
C12_Witness ==
  /\ gen_pc = "validated" /\ submitted_records = records
  /\ EmailVariesPerRecord /\ Len(records) = 3 /\ num_users = 2
  /\ validation_results.emails_unique

\* the record set is clean: the requested count, distinct emails, distinct
\* record_ids, a non-empty name and an email or lo_email in every record
Clean(recs) ==
  /\ Len(recs) = total_records
  /\ Cardinality(EmailsOf(recs)) = Len(recs)
  /\ Cardinality(RecordIdsOf(recs)) = Len(recs)
  /\ \A k \in 1..Len(recs) :
       /\ ~Falsy(Get(recs[k].payload, "first_name", None))
       /\ \/ ~Falsy(Get(recs[k].payload, "email", None))
          \/ ~Falsy(Get(recs[k].payload, "lo_email", None))

\* C13: the validation_errors list validate_test_records returns is empty
\* exactly when the record set is clean.
C13_ErrorsEmptyIffClean ==
  gen_pc = "validated" =>
    (validation_results.validation_errors = <<>> <=> Clean(submitted_records))

\* C14: the k-th record generated has sequence_number k, and the returned
\* sequence has the requested length, so the numbers are 1..total across
\* the user boundaries.
C14_GlobalSequenceNumbers ==
  /\ \A k \in 1..Len(records) : records[k].sequence_number = k
  /\ Generated => Len(records) = total_records

\* a returned run in which the last record of one user and the first record
\* of the next have adjacent numbers, the later one above 1
C14_Witness ==
  /\ gen_pc = "returned"
  /\ \E k \in 2..(Len(records) - 1) :
       /\ records[k].user_email # records[k + 1].user_email
       /\ records[k + 1].sequence_number = records[k].sequence_number + 1

(***************************************************************************)
(* Template resolution.                                                    *)
(***************************************************************************)
\* the definition, or one below it, has a dynamic key that is outside the
\* recognised set or absent from the substitution map
RECURSIVE HasUnresolvableDynamic(_, _)
HasUnresolvableDynamic(field_def, data) ==
  \/ /\ "dynamic" \in DOMAIN field_def
     /\ \/ field_def["dynamic"] \notin DynamicFieldType
        \/ field_def["dynamic"] \notin DOMAIN data
  \/ /\ "properties" \in DOMAIN field_def
     /\ \E prop_name \in DOMAIN field_def["properties"] :
          HasUnresolvableDynamic(field_def["properties"][prop_name], data)

\* C15: resolving a template that contains a Dynamic node whose key cannot
\* be resolved fails with an error: no payload is returned for it.
C15_UnresolvableDynamicFails ==
  (\E field_name \in DOMAIN schema_data :
     HasUnresolvableDynamic(schema_data[field_name], prospect_data))
    => schema_pc # "resolved"

\* the definition, and every one below it, has exactly one of the keys
\* static, dynamic and properties, and its dynamic key can be resolved
RECURSIVE WellFormedDef(_, _)
WellFormedDef(field_def, data) ==
  /\ Cardinality(DOMAIN field_def \cap {"static", "dynamic", "properties"}) = 1
  /\ "dynamic" \in DOMAIN field_def =>
       /\ field_def["dynamic"] \in DynamicFieldType
       /\ field_def["dynamic"] \in DOMAIN data
  /\ "properties" \in DOMAIN field_def =>
       \A prop_name \in DOMAIN field_def["properties"] :
         WellFormedDef(field_def["properties"][prop_name], data)

\* Static(v) -> v, Dynamic(key) -> substitutions[key], Object(children) ->
\* the mapping of every child's name to the child's resolved value
RECURSIVE Resolved(_, _)
Resolved(field_def, substitutions) ==
  IF "static" \in DOMAIN field_def THEN field_def["static"]
  ELSE IF "dynamic" \in DOMAIN field_def
    THEN substitutions[field_def["dynamic"]]
  ELSE [prop_name \in DOMAIN field_def["properties"] |->
          Resolved(field_def["properties"][prop_name], substitutions)]

Scenario1Template ==
  [name |-> [type |-> "string", dynamic |-> "firstName"],
   meta |-> [type |-> "object", properties |-> SrcStatic]]

\* C16: the payload of a template whose nodes each have one form and
\* resolvable keys is the recursive resolution of the template: a static
\* value unchanged, substitutions[key] for a dynamic key, and for an object
\* a mapping with exactly its children's names; {name: Dynamic(firstName),
\* meta: Object{src: Static(test)}} with firstName = Ann yields
\* {name: Ann, meta: {src: test}}.
C16_RecursiveResolution ==
  ( /\ schema_pc = "resolved"
    /\ \A field_name \in DOMAIN schema_data :
         WellFormedDef(schema_data[field_name], prospect_data) )
    => /\ DOMAIN payload = DOMAIN schema_data
       /\ \A field_name \in DOMAIN schema_data :
            payload[field_name] =
              Resolved(schema_data[field_name], prospect_data)
       /\ DOMAIN payload["meta"] = DOMAIN schema_data["meta"]["properties"]
       /\ ( /\ schema_data = Scenario1Template
            /\ DOMAIN prospect_data = {"firstName"} )
            => payload = [name |-> "Ann", meta |-> [src |-> "test"]]

\* the scenario resolved: firstName = Ann gives {name: Ann, meta: {src: test}}
C16_Witness ==
  /\ schema_pc = "resolved"
  /\ schema_data = Scenario1Template
  /\ DOMAIN prospect_data = {"firstName"}
  /\ payload["name"] = "Ann" /\ payload["meta"]["src"] = "test"

\* the node, and every node below it, has exactly one of the three forms
RECURSIVE ExactlyOneForm(_)
ExactlyOneForm(node) ==
  /\ Cardinality({form \in {"static", "dynamic", "properties"} :
                    node[form] # <<>>}) = 1
  /\ node.properties # <<>> =>
       \A prop_name \in DOMAIN node.properties[1] :
         ExactlyOneForm(node.properties[1][prop_name])

\* C17: every node _convert_json_field builds has exactly one of the forms
\* static value, dynamic key, object properties; a node with properties
\* carries neither a static value nor a dynamic key.
C17_ExactlyOneFormPerNode ==
  schema_pc \in {"converted", "resolved"} =>
    \A field_name \in DOMAIN fields : ExactlyOneForm(fields[field_name])

(***************************************************************************)
(* Remote calls.                                                           *)
(***************************************************************************)
\* C18: _make_request raises BonzoAPIError, and no other error kind, for
\* every response whose status is not 2xx and for every transport failure,
\* with the status code and the body's parsed message in the error; it
\* returns parsed data only for a 2xx response.
C18_OnlyBonzoAPIError ==
  api_pc = "done" =>
    /\ api_result.kind = "raise" => api_result.error = "BonzoAPIError"
    /\ api_remote.kind \in {"InvalidURL", "transport"} =>
         api_result.kind = "raise"
    /\ (api_remote.kind = "response" /\ ~IsSuccess(api_remote.status)) =>
         /\ api_result.kind = "raise"
         /\ api_result.message =
              error_msg(api_remote.status, parsed_data(api_remote.body))
    /\ api_result.kind = "return" =>
         /\ api_remote.kind = "response" /\ IsSuccess(api_remote.status)
         /\ api_result.data = parsed_data(api_remote.body)

(***************************************************************************)
(* The endpoint check.                                                     *)
(***************************************************************************)
PingFailures == {"NotSent", "Timeout", "ConnectionError", "Exception"}

\* C19: validate_webhook_endpoint returns a result for every call; for
\* every failure kind (malformed URL, timeout, connection error, any other
\* exception) the result has endpoint_reachable = false and a non-null
\* error string; the error strings of a timeout, a connection error and
\* another exception are pairwise distinct; and two calls that fail the
\* same way return the same result.
C19_PingFailuresReported ==
  /\ Len(ping_results) = Len(ping_calls)
  /\ \A k \in 1..Len(ping_calls) :
       ping_calls[k].outcome.kind \in PingFailures =>
         /\ ~ping_results[k].endpoint_reachable
         /\ ping_results[k].error \notin {None, ""}
         /\ \A j \in 1..Len(ping_calls) :
              /\ ping_calls[j].outcome = ping_calls[k].outcome
                   => ping_results[j] = ping_results[k]
              /\ ( /\ ping_calls[j].outcome.kind \in PingFailures
                   /\ ping_calls[j].outcome.kind # ping_calls[k].outcome.kind )
                   => ping_results[j].error # ping_results[k].error

\* a check that timed out after one that could not connect, both reported
\* as not reachable
C19_Witness ==
  /\ Len(ping_calls) = 2
  /\ ping_calls[1].outcome.kind = "ConnectionError"
  /\ ping_calls[2].outcome.kind = "Timeout"
  /\ ~ping_results[1].endpoint_reachable
  /\ ~ping_results[2].endpoint_reachable

(***************************************************************************)
(* The delivery report.                                                    *)
(***************************************************************************)
\* the positions of the responses whose status is outside 200..299
FailedPositions ==
  {k \in 1..Len(report_responses) :
     ~IsSuccess(report_responses[k].status_code)}

\* C20: the failures list of the report holds exactly the record_ids of the
\* responses whose status_code is outside 200..299 (status 0 included),
\* failed_requests equals its length, successful_requests + failed_requests
\* = total_requests, and the status_code_breakdown counts sum to
\* total_requests; five responses of which two are 500 give total 5,
\* successful 3, failed 2 and exactly those two record_ids.
C20_ReportCountsFailures ==
  report_pc = "done" =>
    /\ {report.failures[i].record_id : i \in 1..Len(report.failures)}
         = {report_responses[k].record_id : k \in FailedPositions}
    /\ Len(report.failures) = Cardinality(FailedPositions)
    /\ report.summary.failed_requests = Len(report.failures)
    /\ report.summary.total_requests = Len(report_responses)
    /\ report.summary.successful_requests + report.summary.failed_requests
         = report.summary.total_requests
    /\ Sum(report.status_code_breakdown, DOMAIN report.status_code_breakdown)
         = report.summary.total_requests
    /\ report_responses = Scenario3Responses =>
         /\ report.summary.total_requests = 5
         /\ report.summary.successful_requests = 3
         /\ report.summary.failed_requests = 2
         /\ {report.failures[i].record_id : i \in 1..Len(report.failures)}
              = {"run_002", "run_004"}

\* the report of the five responses of which two are 500
C20_Witness ==
  /\ report_pc = "done" /\ report_responses = Scenario3Responses
  /\ report.summary.failed_requests = 2 /\ Len(report.failures) = 2

(***************************************************************************)
(* The health check.                                                       *)
(***************************************************************************)
\* a check of the run raised
CheckRaised == health_config.lacks # "nothing"

\* C21: run_integration_health_check reports error iff a check raised, and
\* otherwise healthy iff the webhook check and the API check are both
\* healthy, partial iff exactly one of them is, unhealthy iff neither is;
\* what the recent-test-data check found, or whether it ran, has no part in
\* the overall status.
C21_OverallStatus ==
  health_pc = "returned" =>
    /\ overall_status = "error" <=> CheckRaised
    /\ overall_status = "error" <=> health_error # None
    /\ ~CheckRaised =>
         LET webhook_ok == checks["webhook_health"].status = "healthy"
             api_ok == checks["api_connectivity"].status = "healthy"
         IN /\ overall_status = "healthy" <=> (webhook_ok /\ api_ok)
            /\ overall_status = "partial" <=> (webhook_ok # api_ok)
            /\ overall_status = "unhealthy" <=> (~webhook_ok /\ ~api_ok)
            /\ ("recent_test_data" \in DOMAIN checks) = check_test_data

\* a partial report: the endpoint answered, one of two users was not
\* accessible, and the recent-test-data check ran into an error
C21_Witness ==
  /\ health_pc = "returned" /\ overall_status = "partial"
  /\ checks["webhook_health"].status = "healthy"
  /\ checks["api_connectivity"].status = "partial"
  /\ check_test_data
  /\ \E u \in 1..health_config.users :
       checks["recent_test_data"].user_breakdown[u].error # None

(***************************************************************************)
(* The gates of a run (generate_test_data)                                 *)
(***************************************************************************)
RecordPosts == {i \in DOMAIN posts : posts[i] > 0}

GatesPassed ==
  <<Gate("validate", TRUE), Gate("dry_run", TRUE), Gate("endpoint", TRUE)>>

\* C22: within one run of generate_test_data a record is POSTed only after
\* validation returned no errors, then dry_run was found false, then the ping
\* reported the endpoint reachable, in that order; a run in which one of the
\* three fails stops having sent no record.
C22_PostsOnlyBehindGates ==
  /\ RecordPosts # {} =>
       /\ run_log = GatesPassed
       /\ validation_results.validation_errors = <<>>
       /\ ~dry_run
       /\ ping_results # <<>> /\ ping_results[1].endpoint_reachable
  /\ run_pc = "stopped" =>
       /\ run_log # <<>> /\ ~run_log[Len(run_log)].passed
       /\ \A k \in 1..(Len(run_log) - 1) : run_log[k] = GatesPassed[k]
       /\ bulk_pc = "idle" /\ posts = <<>>

C22_Witness ==
  /\ run_pc = "done" /\ Cardinality(RecordPosts) = MaxRunRecords
  /\ run_log = GatesPassed

(***************************************************************************)
(* Batch mode sends once                                                   *)
(***************************************************************************)
PostEnded(i) == post_outcome[i] # NoOutcome

\* C23: in batch mode a record is POSTed once: a record whose delivery ended,
\* with any status or with none, is never sent again by
\* send_bulk_webhooks_async, and its entry has a 2xx status exactly when its
\* POST was answered 2xx. (A record has no POST at the return only if its task
\* was cancelled while it waited for a slot.)
C23_PostedOnceNeverResent ==
  \A i \in Records :
    /\ posts[i] <= 1
    /\ task[i] = "inflight" => posts[i] = 1
    /\ PostEnded(i) =>
         /\ posts[i] = 1 /\ task[i] = "finished"
         /\ ~ENABLED Acquire(i)
    /\ bulk_pc = "returned" =>
         /\ posts[i] = 0 => responses[i] = Fault("CancelledError", "")
         /\ PostEnded(i) =>
              (IsSuccess(webhook_responses[i].status_code)
                 <=> /\ post_outcome[i].kind = "status"
                     /\ IsSuccess(post_outcome[i].status))

C23_Witness ==
  /\ bulk_pc = "returned" /\ Len(test_records) = MaxRecords
  /\ \A i \in Records : PostEnded(i) /\ posts[i] = 1
  /\ \E i \in Records : post_outcome[i].kind = "Timeout"
  /\ \E i \in Records :
       post_outcome[i].kind = "status" /\ ~IsSuccess(post_outcome[i].status)
  /\ \E i \in Records : IsSuccess(webhook_responses[i].status_code)

(***************************************************************************)
(* The declared distributions fall back to even                            *)
(***************************************************************************)
\* the counts of the even branch for the same total and users
EvenCounts == [u \in 1..num_users |-> UserCount(u - 1)]

RECURSIVE EvenOwner(_, _)
\* the 0-based user who gets the k-th record under the even counts, counting
\* from user u
EvenOwner(k, u) ==
  IF k <= EvenCounts[u + 1] THEN u ELSE EvenOwner(k - EvenCounts[u + 1], u + 1)

\* the record sequence of the even distribution
EvenRecords ==
  [k \in 1..total_records |->
     test_record(TestUser(EvenOwner(k, 0)), RecordId(TestRunId, k), k)]

\* C24: for the distribution names weighted and custom the factory produces
\* the per-user counts of even, and so the record sequence of even, for every
\* total and user list.
C24_FallbackEqualsEven ==
  distribution_method \in {"weighted", "custom"} =>
    /\ dist_pc = "returned" => user_distributions = EvenCounts
    /\ Generated => records = EvenRecords

C24_Witness ==
  /\ distribution_method = "weighted" /\ Generated
  /\ total_records = MaxTotal /\ num_users = MaxUsers
  /\ total_records % num_users # 0
  /\ records = EvenRecords

(***************************************************************************)
(* Records of a response that cannot be read                               *)
(***************************************************************************)
LacksRequired(remote_record) ==
  \E k \in DOMAIN RequiredFields :
    RequiredFields[k] \notin remote_record.keys

RECURSIVE KeptOf(_)
\* the elements of a list that lack no required field, in list order
KeptOf(list) ==
  IF list = <<>> THEN <<>>
  ELSE IF LacksRequired(list[1]) THEN KeptOf(Tail(list))
  ELSE <<ProspectData(list[1])>> \o KeptOf(Tail(list))

\* C25: get_user_prospects drops every record of the response that lacks a
\* required field (any field but email and phone) and returns all the others
\* in response order; no record of the response makes the call fail.
C25_MalformedRecordsDropped ==
  /\ fetch_pc = "returned" =>
       fetch_prospects = KeptOf(response_data(fetch_response))
  /\ fetch_pc = "raised" => fetch_response.kind = "BonzoAPIError"

(***************************************************************************)
(* Text substitution                                                       *)
(***************************************************************************)
\* a value with no brace, quotation mark or backslash
NoBraceQuoteBackslash(value) ==
  \A k \in DOMAIN value : value[k] \notin {LBrace, RBrace, Quote, Backslash}

RECURSIVE Substituted(_, _)
\* the string with every occurrence of a recognised placeholder replaced by
\* the value of its key, read left to right
Substituted(str, values) ==
  IF str = <<>> THEN <<>>
  ELSE IF /\ Len(str) >= 3 /\ str[1] = LBrace /\ str[3] = RBrace
          /\ str[2] \in RecognisedKeys
    THEN values[str[2]] \o Substituted(SubSeq(str, 4, Len(str)), values)
  ELSE <<Head(str)>> \o Substituted(Tail(str), values)

HasPlaceholder(str) ==
  \E k \in 1..(Len(str) - 2), key \in RecognisedKeys :
    SubSeq(str, k, k + 2) = Placeholder(key)

\* C26: in text-substitution mode, when no substitution value contains a
\* brace, a quotation mark or a backslash, every occurrence of a recognised
\* placeholder in the template is replaced in the payload by the string form
\* of the record's value, and no recognised placeholder remains.
C26_EveryPlaceholderReplaced ==
  (/\ subst_pc = "done"
   /\ \A key \in RecognisedKeys : NoBraceQuoteBackslash(subst_values[key]))
    => /\ subst_result.kind = "str"
       /\ subst_result.value = Substituted(subst_template, subst_values)
       /\ ~HasPlaceholder(subst_result.value)

(***************************************************************************)
(* Requests per second                                                     *)
(***************************************************************************)
\* the largest response time of the reported list, 0 for an empty list
LargestResponseTime ==
  IF report_responses = <<>> THEN 0
  ELSE Max({report_responses[k].response_time :
              k \in DOMAIN report_responses})

ClampedTime == IF LargestResponseTime > 1 THEN LargestResponseTime ELSE 1

ReportedRps == report.performance_metrics.requests_per_second.hundredths

\* C27 as stated: requests_per_second is exactly total_requests divided by
\* max(max_response_time, 1).
C27_RpsExactQuotient ==
  report_pc = "done" =>
    ReportedRps * ClampedTime = 100 * Len(report_responses)

\* C27: the report's requests_per_second is total_requests /
\* max(max_response_time, 1) rounded to two decimals, max_response_time being
\* the largest response time of the list (0 for an empty list, giving 0).
C27_RpsRoundedQuotient ==
  report_pc = "done" =>
    LET exact == 100 * Len(report_responses)
        diff == ReportedRps * ClampedTime - exact
    IN /\ 2 * diff <= ClampedTime /\ -2 * diff <= ClampedTime
       /\ report_responses = <<>> => ReportedRps = 0

C27_Witness ==
  /\ report_pc = "done" /\ Len(report_responses) = 2
  /\ LargestResponseTime = 3 /\ ReportedRps = 67

(***************************************************************************)
(* What the operations leave alone                                         *)
(***************************************************************************)
\* the configuration object: config.test_records, config.test_users,
\* config.distribution and config.webhook_url
ConfigUnchanged ==
  /\ total_records' = total_records /\ num_users' = num_users
  /\ distribution_method' = distribution_method
  /\ config_webhook_url' = config_webhook_url

\* every TestRecord created so far is still there, as it was
RecordsUnchanged ==
  /\ \A k \in DOMAIN records :
       k \in DOMAIN records' /\ records'[k] = records[k]
  /\ bulk_pc # "idle" => test_records' = test_records

\* C28: generate_test_records, validate_test_records,
\* send_bulk_webhooks_async, send_webhook_with_retry and
\* generate_delivery_report leave the payload template, the configuration
\* object and every TestRecord already created unchanged.
C28_InputsLeftUnchanged ==
  [][/\ payload_template' = payload_template
     /\ ConfigUnchanged
     /\ RecordsUnchanged]_vars

C28_Witness ==
  /\ gen_pc = "validated" /\ Len(records) = MaxRunRecords
  /\ retry_pc = "returned" /\ Len(retry_log) > 1

(***************************************************************************)
(* The sleeps of a retry                                                   *)
(***************************************************************************)
FailedPost(e) ==
  e.ev = "post" /\ ~(e.kind = "status" /\ IsSuccess(e.status))

PostsOfLog == SelectSeq(retry_log, LAMBDA e : e.ev = "post")

\* C29: in send_webhook_with_retry a sleep of retry_delay follows every
\* failed attempt but the last, however the attempt failed (non-2xx status,
\* timeout, other exception); no sleep follows a 2xx or the final attempt;
\* attempt k+1 starts only after attempt k has ended and its sleep is over.
C29_SleepBetweenFailedAttempts ==
  /\ \A j \in DOMAIN retry_log :
       LET e == retry_log[j]
       IN /\ (FailedPost(e) /\ e.attempt < retry_attempts - 1) =>
               /\ j < Len(retry_log)
               /\ retry_log[j + 1].ev = "sleep"
               /\ retry_log[j + 1].attempt = e.attempt
               /\ retry_log[j + 1].t = e.t
          /\ e.ev = "sleep" =>
               /\ j > 1 /\ FailedPost(retry_log[j - 1])
               /\ retry_log[j - 1].attempt = e.attempt
               /\ e.attempt < retry_attempts - 1
          /\ (e.ev = "post" /\ ~FailedPost(e)) => j = Len(retry_log)
  /\ \A k \in DOMAIN PostsOfLog :
       /\ PostsOfLog[k].attempt = k - 1
       /\ k > 1 => PostsOfLog[k].t > PostsOfLog[k - 1].t + retry_delay
  /\ (retry_pc = "loop" /\ retry_log # <<>>) =>
       now >= retry_log[Len(retry_log)].t
                + (IF retry_log[Len(retry_log)].ev = "sleep"
                     THEN retry_delay ELSE 0)

C29_Witness ==
  /\ retry_pc = "returned" /\ retry_attempts = MaxRetry
  /\ Len(retry_log) = 2 * MaxRetry - 1
  /\ \E j \in DOMAIN retry_log : retry_log[j].kind = "Timeout"
  /\ \E j \in DOMAIN retry_log : retry_log[j].kind = "Exception"
  /\ \E j \in DOMAIN retry_log : retry_log[j].kind = "status"

(***************************************************************************)
(* The fetches of a poll                                                   *)
(***************************************************************************)
\* when the k-th fetch of the log started: at the call for the first, when
\* the sleep before it ended for the others
FetchStartTime(k) ==
  IF k = 1 THEN start_time ELSE poll_log[2 * k - 2].t + check_interval

\* every fetch so far took no time
ZeroTimeFetches ==
  \A k \in DOMAIN PollFetches : PollFetches[k].t = FetchStartTime(k)

CeilDiv(a, b) == (a + b - 1) \div b

\* C30: wait_for_prospects tests the deadline only before a fetch and sleeps
\* exactly check_interval after every fetch that fell short, with no backoff:
\* a fetch never starts once the deadline has passed, and when the fetches
\* take no time a poll with timeout T > 0 and interval I makes exactly
\* ceil(T / I) fetches before it fails (5 for T = 1 s and I = 0.2 s).
C30_FetchesUntilDeadline ==
  /\ \A j \in DOMAIN poll_log :
       /\ poll_log[j].ev = (IF j % 2 = 1 THEN "fetch" ELSE "sleep")
       /\ poll_log[j].ev = "sleep" => poll_log[j].t = poll_log[j - 1].t
       /\ (poll_log[j].ev = "fetch" /\ poll_log[j].found < expected_count)
            => j < Len(poll_log)
  /\ (poll_pc = "loop" /\ poll_log # <<>>) =>
       now = poll_log[Len(poll_log)].t + check_interval
  /\ \A k \in DOMAIN PollFetches :
       /\ FetchStartTime(k) - start_time < timeout
       /\ PollFetches[k].t >= FetchStartTime(k)
  /\ (/\ poll_pc = "raised" /\ poll_error.kind = "TimeoutError"
      /\ ZeroTimeFetches /\ timeout > 0 /\ check_interval > 0)
       => Len(PollFetches) = CeilDiv(timeout, check_interval)

\* C30 witness: scenario 5 in ticks of 0.2 s: timeout 5, interval 1, every
\* fetch takes no time and finds 3 of the 5 expected: five fetches, then the
\* timeout.
C30_Witness ==
  /\ poll_pc = "raised" /\ poll_error.kind = "TimeoutError"
  /\ timeout = 5 /\ check_interval = 1 /\ ZeroTimeFetches
  /\ Len(PollFetches) = 5
  /\ \A k \in DOMAIN PollFetches : PollFetches[k].found = 3

(***************************************************************************)
(* A fetch that raises during a poll                                       *)
(***************************************************************************)
\* C31: a BonzoAPIError raised by a fetch of find_test_prospects inside
\* wait_for_prospects reaches the caller and ends the poll at once: it is not
\* swallowed, it is not counted as a fetch that found nothing, and no fetch
\* follows it on a later interval.
C31_FetchErrorEndsPoll ==
  poll_error.kind = "BonzoAPIError" =>
    /\ poll_pc = "raised"
    /\ poll_result = <<>>
    /\ poll_log = <<>> \/ poll_log[Len(poll_log)].ev = "sleep"
    /\ ~ENABLED PollIteration
    /\ ~ENABLED PollFetchRaises
    /\ ~ENABLED PollDeadline

C31_Witness ==
  /\ poll_error.kind = "BonzoAPIError" /\ poll_pc = "raised"
  /\ Len(PollFetches) >= 2
  /\ now - start_time < timeout

(***************************************************************************)
(* The three flags of the endpoint check                                   *)
(***************************************************************************)
\* The ping POST of the i-th call came back with an HTTP response.
PingAnswered(i) == ping_calls[i].outcome.kind = "status"

\* status of check_webhook_health for the results of the i-th call
HealthOfPing(i) ==
  check_webhook_health([webhook_url |-> config_webhook_url],
                       ping_results[i]).status

\* C32: validate_webhook_endpoint sets endpoint_reachable, supports_post and
\* accepts_json together: all three are true exactly when the ping POST came
\* back with an HTTP response, whatever its status (4xx and 5xx included),
\* and then error is null; otherwise all three are false; and
\* check_webhook_health reports healthy exactly when they are true.
C32_FlagsSetTogether ==
  \A i \in 1..Len(ping_results) :
    /\ ping_results[i].supports_post = ping_results[i].endpoint_reachable
    /\ ping_results[i].accepts_json = ping_results[i].endpoint_reachable
    /\ ping_results[i].endpoint_reachable <=> PingAnswered(i)
    /\ PingAnswered(i) => ping_results[i].error = None
    /\ (HealthOfPing(i) = "healthy") <=> ping_results[i].endpoint_reachable
    /\ HealthOfPing(i) \in {"healthy", "unhealthy"}

C32_Witness ==
  /\ Len(ping_results) = 2
  /\ ping_calls[1].outcome.kind = "status" /\ ping_calls[1].outcome.status >= 500
  /\ ping_results[1].accepts_json /\ HealthOfPing(1) = "healthy"
  /\ ping_calls[2].outcome.kind = "Timeout"
  /\ ~ping_results[2].endpoint_reachable /\ HealthOfPing(2) = "unhealthy"

(***************************************************************************)
(* The user of each generated record                                       *)
(***************************************************************************)
RECURSIVE BlockOwner(_, _)
\* the 0-based user whose block holds the k-th record, when the blocks
\* follow the user list from user u on with the sizes of user_distributions
BlockOwner(k, u) ==
  IF k <= CountOf(u) THEN u ELSE BlockOwner(k - CountOf(u), u + 1)

\* the positions of the records that carry the identity of user u
PositionsOf(u) ==
  {k \in 1..Len(records) : records[k].user_id = TestUser(u).user_id}

\* C33: each generated record carries the email, user_id and team_id of the
\* user it was distributed to; the records of the users form contiguous
\* blocks in user-list order whose sizes are the distribution counts; and a
\* {user.id} placeholder resolves in every payload to the (decimal text of
\* the) user_id of that record.
C33_RecordsCarryTheirUser ==
  /\ \A k \in 1..Len(records) :
       LET user == TestUser(BlockOwner(k, 0))
       IN /\ records[k].user_email = user.email
          /\ records[k].user_id = user.user_id
          /\ records[k].team_id = user.team_id
          /\ payload_template = SuperuserTemplate =>
               records[k].payload.user_id = ToString(records[k].user_id)
  /\ Generated =>
       \A u \in 0..(num_users - 1) : Cardinality(PositionsOf(u)) = CountOf(u)

\* scenario 2 with a {user.id} template: ten records over three users in
\* blocks of 4, 3 and 3
C33_Witness ==
  /\ Generated /\ payload_template = SuperuserTemplate
  /\ num_users = 3 /\ Len(records) = 10
  /\ PositionsOf(0) = 1..4 /\ PositionsOf(1) = 5..7 /\ PositionsOf(2) = 8..10
  /\ records[5].payload.user_id = "101" /\ records[8].user_email = TestUser(2).email

(***************************************************************************)
(* The value returned by the retrying send                                 *)
(***************************************************************************)
\* C34: send_webhook_with_retry returns a WebhookResponse for the given
\* record_id (never None, never an exception) for every configured
\* retry_attempts value and every sequence of attempt outcomes.
C34_AlwaysAResponse ==
  retry_pc = "returned" =>
    /\ retry_result # NoResponse
    /\ IsWebhookResponse(retry_result)
    /\ retry_result.record_id = RetryRecordId

(***************************************************************************)
(* Termination of the bulk send                                            *)
(***************************************************************************)
\* record i waits for a slot
Waiting(i) == i \in Records /\ bulk_pc = "gather" /\ task[i] = "pending"

\* record i took a slot, or its task was cancelled while it waited
AcquiredOrCancelled(i) ==
  /\ i \in Records
  /\ posts[i] >= 1 \/ responses[i] = Fault("CancelledError", "")

\* every slot is back once no delivery is in flight
SlotsReturned ==
  (bulk_pc # "idle" /\ InFlight = {}) => semaphore = concurrent_requests

\* C35: send_bulk_webhooks_async terminates for every N >= 0 and C >= 1:
\* given that each request eventually completes, fails or times out, the gate
\* is released on every exit path, every waiting delivery eventually acquires
\* it (no deadlock, no starvation), and the batch eventually returns.
C35_BulkTerminates ==
  /\ []SlotsReturned
  /\ \A i \in 1..MaxFairRecords : Waiting(i) ~> AcquiredOrCancelled(i)
  /\ <>(bulk_pc = "returned")

\* two records through one slot, one of them ended by a fault while it held
\* the slot and the other by a timeout, and the batch returned
C35_Witness ==
  /\ bulk_pc = "returned" /\ Len(test_records) = 2 /\ concurrent_requests = 1
  /\ \A i \in Records : posts[i] = 1
  /\ \E i \in Records : responses[i] \in TaskFaults
  /\ \E i \in Records : post_outcome[i].kind = "Timeout"
  /\ semaphore = 1

(***************************************************************************)
(* The API connectivity check                                              *)
(***************************************************************************)
\* C36: check_api_connectivity probes every configured user even when
\* earlier users fail, records exactly one user_details entry per user (in
\* user order), counts users_accessible as the number of successful probes,
\* and reports healthy iff users_accessible equals the number of users,
\* otherwise partial iff it is above zero, otherwise unhealthy.
C36_EveryUserProbed ==
  "api_connectivity" \in DOMAIN checks =>
    LET api_status == checks["api_connectivity"]
        details == api_status.user_details
        accessible == {u \in 1..Len(details) : details[u].accessible}
    IN /\ Len(details) = health_config.users
       /\ \A u \in 1..Len(details) :
            /\ details[u].user_id = TestUser(u - 1).user_id
            /\ details[u].accessible <=> details[u].error = None
       /\ api_status.users_accessible = Cardinality(accessible)
       /\ api_status.status = "healthy" <=>
            api_status.users_accessible = health_config.users
       /\ api_status.status = "partial" <=>
            /\ api_status.users_accessible # health_config.users
            /\ api_status.users_accessible > 0
       /\ api_status.status = "unhealthy" <=>
            /\ api_status.users_accessible # health_config.users
            /\ api_status.users_accessible = 0

\* three users: the first probe fails with a BonzoAPIError, the second with
\* another exception, the third succeeds, and the check reports partial
C36_Witness ==
  /\ "api_connectivity" \in DOMAIN checks /\ health_config.users = 3
  /\ LET details == checks["api_connectivity"].user_details
     IN /\ ~details[1].accessible /\ ~details[2].accessible
        /\ details[1].error # details[2].error
        /\ details[3].accessible
  /\ checks["api_connectivity"].users_accessible = 1
  /\ checks["api_connectivity"].status = "partial"

(***************************************************************************)
(* The URL whose format the endpoint check tests                           *)
(***************************************************************************)
\* C37: validate_webhook_endpoint checks the format of the same URL that it
\* pings and that deliveries are sent to: with an override webhook_url both
\* the format check and the ping use the override, not the configuration's
\* default URL; so a call stops at the format check exactly when the URL of
\* the validator is malformed, and every ping goes to that URL.
C37_FormatCheckOnPingedUrl ==
  \A k \in 1..Len(ping_calls) :
    /\ format_checked_url = webhook_url
    /\ ping_calls[k].outcome = NotSent <=> InvalidFormat(webhook_url)
    /\ ping_calls[k].outcome # NotSent => ping_calls[k].posted = webhook_url

(***************************************************************************)
(* The selected webhook and the saved prospects of the desktop tool        *)
(***************************************************************************)
\* C38: after any sequence of select_organization, select_webhook,
\* add_webhook and delete_webhook, selected_webhook_index is None or a valid
\* index into selected_organization.webhooks, and it still designates the
\* webhook the user selected.
C38_SelectedIndexValid ==
  selected_webhook_index # <<>> =>
    /\ selected_organization # <<>>
    /\ 0 <= selected_webhook_index[1]
    /\ selected_webhook_index[1] < Len(selected_organization[1].webhooks)
    /\ selected_organization[1].webhooks[selected_webhook_index[1] + 1]
         = user_selected_webhook[1]

\* the prospects saved for an organization, as a set
SavedSet(org_id) ==
  {generated_prospects_file[org_id].prospects[k] :
     k \in 1..Len(generated_prospects_file[org_id].prospects)}

\* next_prospect_index is one more than the number of saved prospects, and
\* no prospect is saved twice
StoreCounts ==
  \A org_id \in DOMAIN generated_prospects_file :
    /\ generated_prospects_file[org_id].next_prospect_index
         = 1 + Len(generated_prospects_file[org_id].prospects)
    /\ Cardinality(SavedSet(org_id))
         = Len(generated_prospects_file[org_id].prospects)

\* a step in which send_payload made its POST
SendStep == sends' = sends + 1

\* the store changes only by a send that returned 200 with a prospect
\* pending, which appends that prospect for the selected organization and
\* clears it; any other send leaves the store and the pending prospect alone
SavedOnlyOn200 ==
  /\ generated_prospects_file' # generated_prospects_file =>
       /\ SendStep /\ last_status' = <<200>> /\ pending_prospect # <<>>
       /\ generated_prospects_file' = save_prospect_after_successful_send
       /\ pending_prospect' = <<>>
  /\ (SendStep /\ last_status' = <<200>> /\ pending_prospect # <<>>) =>
       generated_prospects_file' # generated_prospects_file
  /\ (SendStep /\ last_status' # <<200>>) =>
       /\ generated_prospects_file' = generated_prospects_file
       /\ pending_prospect' = pending_prospect

\* C39: a generated prospect is persisted only after a send returned HTTP
\* 200 while it was pending: across any sequence of generate_new_prospect,
\* select and send operations, starting from an empty store, each
\* organisation's next_prospect_index equals 1 plus its number of saved
\* prospects, no prospect is saved twice, and a failed or non-200 send leaves
\* the store and the pending prospect unchanged.
C39_SavedOnlyAfter200 == []StoreCounts /\ [][SavedOnlyOn200]_vars

\* two prospects saved for org1, then a third generated whose send got a 201
\* and left it pending
C39_Witness ==
  /\ "org1" \in DOMAIN generated_prospects_file
  /\ generated_prospects_file["org1"].prospects = <<1, 2>>
  /\ generated_prospects_file["org1"].next_prospect_index = 3
  /\ sends = 3 /\ last_status = <<201>> /\ pending_prospect = <<3>>

====
